---- MODULE Spec2Model ----
(***************************************************************************)
(* GoReddit: the actor pool that dispatches write requests (ActorPool,     *)
(* RequestProcessingActor in src/main.go) and the DatabaseManager write    *)
(* operations the workers and the direct handlers execute.                 *)
(*                                                                         *)
(* Store: the SQLite database is opened from a file name without any       *)
(* foreign_keys pragma, so FOREIGN KEY clauses are declared but not        *)
(* enforced; PRIMARY KEY, UNIQUE and CHECK constraints are enforced.       *)
(* Actors: a protoactor PID has an unbounded FIFO mailbox and its Receive  *)
(* is invoked for one message at a time.                                   *)
(***************************************************************************)
EXTENDS Integers, Sequences, FiniteSets, TLC

\* ------------------------------------------------------------------ bounds
PoolSize == 2
NumCallers == 3
MaxFaults == 1
MaxDirectCalls == 3

\* --------------------------------------------------------------- constants
Nil == "nil"
NoHolder == -1

Workers == 0 .. (PoolSize - 1)
Callers == 1 .. NumCallers
Direct == PoolSize
StoreProcs == 0 .. PoolSize
Reader == PoolSize + 1

VARIABLES
  \* ActorPool
  roundRobin, pmu,
  \* ProcessRequest callers (one gateway goroutine each)
  cpc, cin, cactor, cchan, cret,
  \* the statuses written with c.JSON to each caller's gin.Context, in order
  resp,
  \* Requests, result channels, actor mailboxes
  requests, chans, mailbox,
  \* RequestProcessingActor.Receive
  wpc, wmsg,
  \* DatabaseManager: mutex, committed database, open transactions
  dmu, db, tx,
  \* a DatabaseManager call in progress, per calling goroutine
  spc, sarg, serr, sidx, spre,
  \* a read method in progress (one handler goroutine) and what its query returned
  rpc, rseen,
  \* injected store failures, direct calls made
  faults, ndirect,
  \* history: slot takings in order; per worker, the requests enqueued and
  \* executed in order; sends made per channel; what each request's execution returned
  slotLog, enqLog, execLog, nsent, outcome

poolVars == <<roundRobin, pmu>>
callerVars == <<cpc, cin, cactor, cchan, cret, resp>>
msgVars == <<requests, chans, mailbox>>
workerVars == <<wpc, wmsg>>
dbVars == <<dmu, db, tx>>
opVars == <<spc, sarg, serr, sidx, spre>>
readVars == <<rpc, rseen>>
auxVars == <<faults, ndirect>>
histVars == <<slotLog, enqLog, execLog, nsent, outcome>>
vars ==
  <<poolVars, callerVars, msgVars, workerVars, dbVars, opVars, readVars, auxVars, histVars>>

\* ------------------------------------------------------------ the database
MaxOf(S) == IF S = {} THEN 0 ELSE CHOOSE m \in S : \A x \in S : x <= m

Ids(rows) == {r.id : r \in rows}

EmptySeq == [users |-> 0, subreddits |-> 0, posts |-> 0, comments |-> 0, direct_messages |-> 0]

EmptyDb ==
  [users |-> {}, subreddits |-> {}, subreddit_members |-> {}, posts |-> {},
   comments |-> {}, votes |-> {}, direct_messages |-> {}, user_subscriptions |-> {},
   seq |-> EmptySeq]

\* INTEGER PRIMARY KEY AUTOINCREMENT: one more than the largest id ever used
NextId(d, table) == MaxOf(Ids(d[table]) \cup {d.seq[table]}) + 1

UsernameTaken(d, username) == \E u \in d.users : u.username = username

InsertUser(d, username) ==
  LET id == NextId(d, "users") IN
  [d EXCEPT !.users = @ \cup {[id |-> id, username |-> username, karma |-> 0]},
            !.seq.users = id]

InsertPost(d, authorID, subredditID) ==
  LET id == NextId(d, "posts") IN
  [d EXCEPT !.posts = @ \cup {[id |-> id, author_id |-> authorID, subreddit_id |-> subredditID]},
            !.seq.posts = id]

InsertComment(d, authorID, postID, parentCommentID) ==
  LET id == NextId(d, "comments") IN
  [d EXCEPT !.comments = @ \cup {[id |-> id, author_id |-> authorID, post_id |-> postID,
                                  parent_comment_id |-> parentCommentID]},
            !.seq.comments = id]

\* subreddits: name TEXT UNIQUE
SubredditNameTaken(d, name) == \E r \in d.subreddits : r.name = name

\* INSERT INTO subreddits (name, description)
InsertSubreddit(d, name) ==
  LET id == NextId(d, "subreddits") IN
  [d EXCEPT !.subreddits = @ \cup {[id |-> id, name |-> name]},
            !.seq.subreddits = id]

\* result.LastInsertId() after an insert into an AUTOINCREMENT table
LastInsertId(d, table) == d.seq[table]

\* a table without INTEGER PRIMARY KEY numbers its rows max(rowid) + 1
NextRowid(rows) == MaxOf({r.rowid : r \in rows}) + 1

IsMemberUnchecked(d, subredditID, userID) == FALSE

\* subreddit_members: PRIMARY KEY (subreddit_id, user_id)
IsMember(d, subredditID, userID) ==
  \E m \in d.subreddit_members : m.subreddit_id = subredditID /\ m.user_id = userID

InsertMember(d, subredditID, userID) ==
  [d EXCEPT !.subreddit_members =
     @ \cup {[rowid |-> NextRowid(@), subreddit_id |-> subredditID, user_id |-> userID]}]

\* DELETE FROM subreddit_members WHERE subreddit_id = ? AND user_id = ?
DeleteMember(d, subredditID, userID) ==
  [d EXCEPT !.subreddit_members =
     {m \in @ : ~(m.subreddit_id = subredditID /\ m.user_id = userID)}]

\* user_subscriptions: PRIMARY KEY (subscriber_id, subscribed_user_id)
IsSubscribed(d, subscriberID, subscribedUserID) ==
  \E r \in d.user_subscriptions :
    r.subscriber_id = subscriberID /\ r.subscribed_user_id = subscribedUserID

InsertSubscription(d, subscriberID, subscribedUserID) ==
  [d EXCEPT !.user_subscriptions =
     @ \cup {[rowid |-> NextRowid(@), subscriber_id |-> subscriberID,
              subscribed_user_id |-> subscribedUserID]}]

\* DELETE FROM user_subscriptions WHERE subscriber_id = ? AND subscribed_user_id = ?
DeleteSubscription(d, subscriberID, subscribedUserID) ==
  [d EXCEPT !.user_subscriptions =
     {r \in @ : ~(r.subscriber_id = subscriberID /\ r.subscribed_user_id = subscribedUserID)}]

\* INSERT INTO direct_messages (from_user_id, to_user_id, content)
InsertMessage(d, fromUserID, toUserID) ==
  LET id == NextId(d, "direct_messages") IN
  [d EXCEPT !.direct_messages =
              @ \cup {[id |-> id, from_user_id |-> fromUserID, to_user_id |-> toUserID]},
            !.seq.direct_messages = id]

VoteRow(a) ==
  [user_id |-> a.userID, target_id |-> a.TargetID, target_type |-> a.TargetType,
   vote_value |-> a.Value]

VoteRowAcceptedNoKey(d, row) ==
  /\ row.target_type \in {"post", "comment"}
  /\ row.vote_value \in {-1, 1}

\* votes: CHECK(target_type), CHECK(vote_value), PRIMARY KEY over all four columns
VoteRowAccepted(d, row) ==
  /\ row.target_type \in {"post", "comment"}
  /\ row.vote_value \in {-1, 1}
  /\ row \notin d.votes

\* SELECT author_id FROM posts|comments WHERE id = ? (the empty set when no row)
AuthorOf(d, targetType, targetID) ==
  IF targetType = "post"
  THEN {p.author_id : p \in {q \in d.posts : q.id = targetID}}
  ELSE {c.author_id : c \in {q \in d.comments : q.id = targetID}}

UpdateKarmaAll(d, targetType, targetID, value) ==
  [d EXCEPT !.users = {[u EXCEPT !.karma = @ + value] : u \in @}]

UpdateKarmaTwice(d, targetType, targetID, value) ==
  [d EXCEPT !.users = {IF u.id \in AuthorOf(d, targetType, targetID)
                       THEN [u EXCEPT !.karma = @ + value + value] ELSE u : u \in @}]

\* UPDATE users SET karma = karma + ? WHERE id = (SELECT author_id ...)
UpdateKarma(d, targetType, targetID, value) ==
  [d EXCEPT !.users = {IF u.id \in AuthorOf(d, targetType, targetID)
                       THEN [u EXCEPT !.karma = @ + value] ELSE u : u \in @}]

ResetTables ==
  <<"direct_messages", "votes", "comments", "posts", "subreddit_members", "subreddits", "users">>

DeleteFrom(d, table) == [d EXCEPT ![table] = {}]

\* DELETE FROM sqlite_sequence WHERE name = table
DeleteSequence(d, table) ==
  IF table \in DOMAIN d.seq THEN [d EXCEPT !.seq[table] = 0] ELSE d

NoTx == [open |-> FALSE, d |-> EmptyDb]

\* ------------------------------------------- DatabaseManager write methods
\* One goroutine p (a worker, or a handler calling the manager directly) runs
\* a method from "lock" to "done"; sarg[p] holds the method and its arguments.
NoArgs ==
  [op |-> "none", userID |-> 0, TargetID |-> 0, TargetType |-> "", Value |-> 0,
   SubredditID |-> 0, PostID |-> 0, ParentCommentID |-> 0, username |-> "",
   name |-> "", SubscribedUserID |-> 0, ToUserID |-> 0]

Transactional == {"Vote", "ResetDatabase", "CreateSubreddit"}

\* the first statement a transactional method executes after Begin
FirstStatement(op) ==
  CASE op = "Vote" -> "insert"
    [] op = "ResetDatabase" -> "delete"
    [] op = "CreateSubreddit" -> "subreddit"

DbMutexFreeBug(m) == TRUE

\* dm.mu (sync.RWMutex) write lock: free when nobody holds it
DbMutexFree(m) == m = NoHolder

UnlockLeaks(m) == m

\* Unlock(): the mutex is free again
Unlock(m) == NoHolder

\* whether the store may reject the next statement (I/O error, busy, ...)
FaultChoices == IF faults < MaxFaults THEN {FALSE, TRUE} ELSE {FALSE}

CountFault(fail) == faults' = IF fail THEN faults + 1 ELSE faults

RollbackCommits(d, t) == t.d

\* tx.Rollback(): the committed database after the transaction is discarded
Rollback(d, t) == d

CommitDiscards(d, t) == d

\* tx.Commit(): the committed database becomes the transaction's
Commit(d, t) == t.d

\* dm.mu.Lock(); in Vote and ResetDatabase followed by tx, err := dm.db.Begin()
DmLock(p) ==
  /\ spc[p] = "lock"
  /\ DbMutexFree(dmu)
  /\ dmu' = p
  /\ spre' = [spre EXCEPT ![p] = db]
  /\ sidx' = [sidx EXCEPT ![p] = 1]
  /\ IF sarg[p].op \in Transactional
     THEN \E fail \in FaultChoices :
            /\ CountFault(fail)
            /\ IF fail
               THEN /\ serr' = [serr EXCEPT ![p] = "begin failed"]
                    /\ spc' = [spc EXCEPT ![p] = "unlock"]
                    /\ UNCHANGED tx
               ELSE /\ tx' = [tx EXCEPT ![p] = [open |-> TRUE, d |-> db]]
                    /\ spc' = [spc EXCEPT ![p] = FirstStatement(sarg[p].op)]
                    /\ UNCHANGED serr
     ELSE /\ spc' = [spc EXCEPT ![p] = "exec"]
          /\ UNCHANGED <<tx, serr, faults>>
  /\ UNCHANGED <<db, sarg>>

\* Vote: INSERT INTO votes ...; on error tx.Rollback() and return
VoteInsert(p) ==
  /\ spc[p] = "insert"
  /\ \E fail \in FaultChoices :
       /\ CountFault(fail)
       /\ IF fail \/ ~VoteRowAccepted(tx[p].d, VoteRow(sarg[p]))
          THEN /\ db' = Rollback(db, tx[p])
               /\ tx' = [tx EXCEPT ![p] = NoTx]
               /\ serr' = [serr EXCEPT ![p] = "failed to record vote"]
               /\ spc' = [spc EXCEPT ![p] = "unlock"]
          ELSE /\ tx' = [tx EXCEPT ![p].d.votes = @ \cup {VoteRow(sarg[p])}]
               /\ spc' = [spc EXCEPT ![p] = "karma"]
               /\ UNCHANGED <<db, serr>>
  /\ UNCHANGED <<dmu, sarg, sidx, spre>>

\* Vote: UPDATE users SET karma = karma + ? WHERE id = (author of the target);
\* on error tx.Rollback(), else return tx.Commit()
VoteKarma(p) ==
  /\ spc[p] = "karma"
  /\ \E fail \in FaultChoices :
       /\ CountFault(fail)
       /\ IF fail
          THEN /\ db' = Rollback(db, tx[p])
               /\ serr' = [serr EXCEPT ![p] = "failed to update karma"]
          ELSE /\ db' = Commit(db, [tx[p] EXCEPT !.d =
                          UpdateKarma(@, sarg[p].TargetType, sarg[p].TargetID, sarg[p].Value)])
               /\ serr' = [serr EXCEPT ![p] = Nil]
  /\ tx' = [tx EXCEPT ![p] = NoTx]
  /\ spc' = [spc EXCEPT ![p] = "unlock"]
  /\ UNCHANGED <<dmu, sarg, sidx, spre>>

\* CreateSubreddit: INSERT INTO subreddits ...; on error tx.Rollback() and return
SubredditInsert(p) ==
  /\ spc[p] = "subreddit"
  /\ \E fail \in FaultChoices :
       /\ CountFault(fail)
       /\ IF fail \/ SubredditNameTaken(tx[p].d, sarg[p].name)
          THEN /\ db' = Rollback(db, tx[p])
               /\ tx' = [tx EXCEPT ![p] = NoTx]
               /\ serr' = [serr EXCEPT ![p] = "failed to create subreddit"]
               /\ spc' = [spc EXCEPT ![p] = "unlock"]
          ELSE /\ tx' = [tx EXCEPT ![p].d = InsertSubreddit(@, sarg[p].name)]
               /\ spc' = [spc EXCEPT ![p] = "member"]
               /\ UNCHANGED <<db, serr>>
  /\ UNCHANGED <<dmu, sarg, sidx, spre>>

\* CreateSubreddit: INSERT INTO subreddit_members (subredditID, creatorID); on
\* error tx.Rollback(), else tx.Commit()
SubredditMember(p) ==
  /\ spc[p] = "member"
  /\ LET subredditID == LastInsertId(tx[p].d, "subreddits") IN
     \E fail \in FaultChoices :
       /\ CountFault(fail)
       /\ IF fail \/ IsMember(tx[p].d, subredditID, sarg[p].userID)
          THEN /\ db' = Rollback(db, tx[p])
               /\ serr' = [serr EXCEPT ![p] = "failed to add creator to subreddit"]
          ELSE /\ db' = Commit(db, [tx[p] EXCEPT !.d =
                          InsertMember(@, subredditID, sarg[p].userID)])
               /\ serr' = [serr EXCEPT ![p] = Nil]
  /\ tx' = [tx EXCEPT ![p] = NoTx]
  /\ spc' = [spc EXCEPT ![p] = "unlock"]
  /\ UNCHANGED <<dmu, sarg, sidx, spre>>

\* ResetDatabase: first loop, DELETE FROM <table>
ResetDelete(p) ==
  /\ spc[p] = "delete"
  /\ \E fail \in FaultChoices :
       /\ CountFault(fail)
       /\ IF fail
          THEN /\ db' = Rollback(db, tx[p])
               /\ tx' = [tx EXCEPT ![p] = NoTx]
               /\ serr' = [serr EXCEPT ![p] = "failed to delete"]
               /\ spc' = [spc EXCEPT ![p] = "unlock"]
               /\ UNCHANGED sidx
          ELSE /\ tx' = [tx EXCEPT ![p].d = DeleteFrom(@, ResetTables[sidx[p]])]
               /\ IF sidx[p] < Len(ResetTables)
                  THEN /\ sidx' = [sidx EXCEPT ![p] = @ + 1]
                       /\ UNCHANGED spc
                  ELSE /\ sidx' = [sidx EXCEPT ![p] = 1]
                       /\ spc' = [spc EXCEPT ![p] = "sequence"]
               /\ UNCHANGED <<db, serr>>
  /\ UNCHANGED <<dmu, sarg, spre>>

\* ResetDatabase: second loop, DELETE FROM sqlite_sequence WHERE name = <table>;
\* after the last table return tx.Commit()
ResetSequence(p) ==
  /\ spc[p] = "sequence"
  /\ \E fail \in FaultChoices :
       /\ CountFault(fail)
       /\ IF fail
          THEN /\ db' = Rollback(db, tx[p])
               /\ tx' = [tx EXCEPT ![p] = NoTx]
               /\ serr' = [serr EXCEPT ![p] = "failed to reset auto-increment"]
               /\ spc' = [spc EXCEPT ![p] = "unlock"]
               /\ UNCHANGED sidx
          ELSE IF sidx[p] < Len(ResetTables)
          THEN /\ tx' = [tx EXCEPT ![p].d = DeleteSequence(@, ResetTables[sidx[p]])]
               /\ sidx' = [sidx EXCEPT ![p] = @ + 1]
               /\ UNCHANGED <<db, serr, spc>>
          ELSE /\ db' = Commit(db, [tx[p] EXCEPT !.d = DeleteSequence(@, ResetTables[sidx[p]])])
               /\ tx' = [tx EXCEPT ![p] = NoTx]
               /\ serr' = [serr EXCEPT ![p] = Nil]
               /\ sidx' = [sidx EXCEPT ![p] = 1]
               /\ spc' = [spc EXCEPT ![p] = "unlock"]
  /\ UNCHANGED <<dmu, sarg, spre>>

\* the single auto-committed statement of RegisterUser, CreatePost,
\* CreateComment, JoinSubreddit, LeaveSubreddit, SendDirectMessage,
\* SubscribeToUser, UnsubscribeFromUser
ExecResult(d, a, fail) ==
  CASE a.op = "RegisterUser" ->
         IF fail \/ UsernameTaken(d, a.username)
         THEN [d |-> d, err |-> "failed to register user"]
         ELSE [d |-> InsertUser(d, a.username), err |-> Nil]
    [] a.op = "CreatePost" ->
         IF fail
         THEN [d |-> d, err |-> "failed to create post"]
         ELSE [d |-> InsertPost(d, a.userID, a.SubredditID), err |-> Nil]
    [] a.op = "CreateComment" ->
         IF fail
         THEN [d |-> d, err |-> "failed to create comment"]
         ELSE [d |-> InsertComment(d, a.userID, a.PostID, a.ParentCommentID), err |-> Nil]
    [] a.op = "JoinSubreddit" ->
         \* INSERT OR IGNORE INTO subreddit_members
         IF fail THEN [d |-> d, err |-> "failed to join subreddit"]
         ELSE IF IsMember(d, a.SubredditID, a.userID) THEN [d |-> d, err |-> Nil]
         ELSE [d |-> InsertMember(d, a.SubredditID, a.userID), err |-> Nil]
    [] a.op = "LeaveSubreddit" ->
         IF fail THEN [d |-> d, err |-> "failed to leave subreddit"]
         ELSE [d |-> DeleteMember(d, a.SubredditID, a.userID), err |-> Nil]
    [] a.op = "SubscribeToUser" ->
         \* INSERT OR IGNORE INTO user_subscriptions
         IF fail THEN [d |-> d, err |-> "failed to subscribe"]
         ELSE IF IsSubscribed(d, a.userID, a.SubscribedUserID) THEN [d |-> d, err |-> Nil]
         ELSE [d |-> InsertSubscription(d, a.userID, a.SubscribedUserID), err |-> Nil]
    [] a.op = "UnsubscribeFromUser" ->
         IF fail THEN [d |-> d, err |-> "failed to unsubscribe"]
         ELSE [d |-> DeleteSubscription(d, a.userID, a.SubscribedUserID), err |-> Nil]
    [] a.op = "SendDirectMessage" ->
         IF fail THEN [d |-> d, err |-> "failed to send message"]
         ELSE [d |-> InsertMessage(d, a.userID, a.ToUserID), err |-> Nil]

ExecStatement(p) ==
  /\ spc[p] = "exec"
  /\ \E fail \in FaultChoices :
       /\ CountFault(fail)
       /\ db' = ExecResult(db, sarg[p], fail).d
       /\ serr' = [serr EXCEPT ![p] = ExecResult(db, sarg[p], fail).err]
  /\ spc' = [spc EXCEPT ![p] = "unlock"]
  /\ UNCHANGED <<dmu, tx, sarg, sidx, spre>>

\* the method returns: defer dm.mu.Unlock()
DmUnlock(p) ==
  /\ spc[p] = "unlock"
  /\ dmu' = Unlock(dmu)
  /\ spc' = [spc EXCEPT ![p] = "done"]
  /\ UNCHANGED <<db, tx, sarg, serr, sidx, spre, faults>>

\* the methods a worker's process functions call
WorkerStoreStep(p) ==
  \/ DmLock(p)
  \/ VoteInsert(p)
  \/ VoteKarma(p)
  \/ SubredditInsert(p)
  \/ SubredditMember(p)
  \/ ExecStatement(p)
  \/ DmUnlock(p)

\* every write method, as the handlers that call the manager directly use them
StoreStep(p) ==
  \/ DmLock(p)
  \/ VoteInsert(p)
  \/ VoteKarma(p)
  \/ SubredditInsert(p)
  \/ SubredditMember(p)
  \/ ResetDelete(p)
  \/ ResetSequence(p)
  \/ ExecStatement(p)
  \/ DmUnlock(p)

\* ------------------------------------------------------------- ActorPool
\* pool.actors[i]: the PID spawned for worker i
ActorAt(i) == i

\* p.actors after NewActorPool(system, handler, PoolSize): one PID per index
Actors == [i \in 1 .. PoolSize |-> ActorAt(i - 1)]

NextRoundRobinStuck(rr) == rr

NextRoundRobinNoWrap(rr) == rr + 1

\* p.roundRobin = (p.roundRobin + 1) % len(p.actors)
NextRoundRobin(rr) == (rr + 1) % PoolSize

PoolMutexFreeBug(m) == TRUE

\* p.mu (sync.Mutex): free when nobody holds it
PoolMutexFree(m) == m = NoHolder

\* make(chan error, 1)
ResultChanCap == 1

EnqueueFront(q, m) == <<m>> \o q

\* Root.Send: the message is appended to the actor's mailbox
Enqueue(q, m) == Append(q, m)

DequeueKeeps(q) == q

\* the mailbox hands over its oldest message and drops it
Dequeue(q) == Tail(q)

NoPayload ==
  [T |-> "", TargetID |-> 0, TargetType |-> "", Value |-> 0, SubredditID |-> 0,
   PostID |-> 0, ParentCommentID |-> 0, Name |-> "", ToUserID |-> 0]

NoInput == [Type |-> "", Payload |-> NoPayload, user_id |-> 0]

NoRequest ==
  [Type |-> "", Payload |-> NoPayload, Context |-> [caller |-> 0, user_id |-> 0],
   Result |-> 0]

NewChanShared(c) == 1

\* make(chan error, 1): a new channel, named after the call that made it
NewChan(c) == c

\* &Request{...}: a new envelope, named after the call that made it
NewRequest(c) == c

\* ProcessRequest: p.mu.Lock(); actor := p.actors[p.roundRobin]
PLock(c) ==
  /\ cpc[c] = "idle"
  /\ PoolMutexFree(pmu)
  /\ pmu' = c
  /\ cactor' = [cactor EXCEPT ![c] = ActorAt(roundRobin)]
  /\ slotLog' = Append(slotLog, [caller |-> c, actor |-> ActorAt(roundRobin)])
  /\ cpc' = [cpc EXCEPT ![c] = "advance"]
  /\ UNCHANGED <<roundRobin, cin, cchan, cret, resp, msgVars, workerVars, dbVars, opVars,
                 readVars, auxVars, enqLog, execLog, nsent, outcome>>

\* make([]*actor.PID, poolSize) for poolSize = 0
EmptyActors == <<>>

\* the index expression actors[i] of a Go slice (0-based) does not panic
IndexInRange(actors, i) == i >= 0 /\ i < Len(actors)

\* ProcessRequest on a pool that NewActorPool built with poolSize 0:
\* p.mu.Lock(); actor := p.actors[p.roundRobin] panics with index out of
\* range while p.mu is held (it is unlocked by no defer); gin's recovery ends
\* the request
PLockEmpty(c) ==
  /\ cpc[c] = "idle"
  /\ PoolMutexFree(pmu)
  /\ pmu' = c
  /\ IF IndexInRange(EmptyActors, roundRobin)
     THEN cpc' = [cpc EXCEPT ![c] = "advance"] /\ UNCHANGED cret
     ELSE /\ cpc' = [cpc EXCEPT ![c] = "panic"]
          /\ cret' = [cret EXCEPT ![c] = "index out of range"]
  /\ UNCHANGED <<roundRobin, cin, cactor, cchan, resp, msgVars, workerVars, dbVars, opVars,
                 readVars, auxVars, histVars>>

\* p.roundRobin = (p.roundRobin + 1) % len(p.actors); p.mu.Unlock()
PAdvance(c) ==
  /\ cpc[c] = "advance"
  /\ roundRobin' = NextRoundRobin(roundRobin)
  /\ pmu' = Unlock(pmu)
  /\ cpc' = [cpc EXCEPT ![c] = "send"]
  /\ UNCHANGED <<cin, cactor, cchan, cret, resp, msgVars, workerVars, dbVars, opVars,
                 readVars, auxVars, histVars>>

\* resultChan := make(chan error, 1); p.system.Root.Send(actor, &Request{...})
\* with the requestType, payload and context the gateway passed in
PSend(c, input) ==
  /\ cpc[c] = "send"
  /\ cin' = [cin EXCEPT ![c] = input]
  /\ cchan' = [cchan EXCEPT ![c] = NewChan(c)]
  /\ requests' = [requests EXCEPT ![NewRequest(c)] =
                   [Type |-> input.Type, Payload |-> input.Payload,
                    Context |-> [caller |-> c, user_id |-> input.user_id],
                    Result |-> NewChan(c)]]
  /\ mailbox' = [mailbox EXCEPT ![cactor[c]] = Enqueue(@, NewRequest(c))]
  /\ enqLog' = [enqLog EXCEPT ![cactor[c]] = Append(@, NewRequest(c))]
  /\ cpc' = [cpc EXCEPT ![c] = "wait"]
  /\ UNCHANGED <<poolVars, cactor, cret, resp, chans, workerVars, dbVars, opVars, readVars,
                 auxVars, slotLog, execLog, nsent, outcome>>

\* what ActorPoolHandler writes when ProcessRequest has returned err:
\* if err != nil { c.JSON(http.StatusInternalServerError, ...) }
HandlerResponse(err) == IF err # Nil THEN <<500>> ELSE <<>>

\* return <-resultChan, and what its only caller, ActorPoolHandler, does with
\* the value returned
PReturn(c) ==
  /\ cpc[c] = "wait"
  /\ chans[cchan[c]] # <<>>
  /\ cret' = [cret EXCEPT ![c] = Head(chans[cchan[c]])]
  /\ resp' = [resp EXCEPT ![c] = @ \o HandlerResponse(Head(chans[cchan[c]]))]
  /\ chans' = [chans EXCEPT ![cchan[c]] = Tail(@)]
  /\ cpc' = [cpc EXCEPT ![c] = "done"]
  /\ UNCHANGED <<poolVars, cin, cactor, cchan, requests, mailbox, workerVars, dbVars,
                 opVars, readVars, auxVars, histVars>>

\* ------------------------------------------------------ ActorPoolHandler
\* An HTTP request as the handler of a route sees it: Type is the route's
\* requestType; Json tells whether the body parses; Text whether the text
\* fields the kind requires (title, content, description) are present; Body
\* holds the other fields, 0 or "" when absent; Param is the :id of the path.
NoRaw ==
  [Type |-> "", Json |-> "ok", Text |-> TRUE, Body |-> NoPayload, Param |-> "", user_id |-> 0]

\* strconv.Atoi on the strings the model uses
Atoi(str) ==
  CASE str = "1" -> [n |-> 1, err |-> Nil]
    [] str = "2" -> [n |-> 2, err |-> Nil]
    [] OTHER -> [n |-> 0, err |-> "invalid syntax"]

\* c.ShouldBindJSON(&req): the body parses and satisfies the binding tags
\* (required rejects the zero value, oneof lists the values allowed)
ShouldBindJSON(raw) ==
  IF raw.Json # "ok" THEN "invalid JSON"
  ELSE CASE raw.Type = "create_post" ->
              IF raw.Text /\ raw.Body.SubredditID # 0 THEN Nil ELSE "required"
         [] raw.Type = "create_comment" ->
              IF raw.Text /\ raw.Body.PostID # 0 THEN Nil ELSE "required"
         [] raw.Type = "send_message" ->
              IF raw.Text /\ raw.Body.ToUserID # 0 THEN Nil ELSE "required"
         [] raw.Type = "create_subreddit" ->
              IF raw.Text /\ raw.Body.Name # "" THEN Nil ELSE "required"
         [] raw.Type = "vote" ->
              IF raw.Body.TargetID = 0 \/ raw.Body.TargetType = "" \/ raw.Body.Value = 0
              THEN "required"
              ELSE IF raw.Body.TargetType \notin {"post", "comment"}
                      \/ raw.Body.Value \notin {-1, 1}
              THEN "oneof"
              ELSE Nil
         [] OTHER -> Nil

BindErrorLax(raw) == Nil

\* the error for which the handler answers 400 and returns, or nil
BindError(raw) ==
  CASE raw.Type \in {"create_post", "create_comment", "send_message", "create_subreddit",
                     "vote"} -> ShouldBindJSON(raw)
    [] raw.Type \in {"join_subreddit", "leave_subreddit"} ->
         IF Atoi(raw.Param).err # Nil THEN "Invalid subreddit ID" ELSE Nil
    [] OTHER -> "Invalid request type"

\* the Go type of the payload the handler builds for a route
BoundTypeOf(type) ==
  CASE type = "create_post" -> "CreatePostRequest"
    [] type = "create_comment" -> "CreateCommentRequest"
    [] type = "send_message" -> "SendMessageRequest"
    [] type = "join_subreddit" -> "JoinSubredditRequest"
    [] type = "leave_subreddit" -> "LeaveSubredditRequest"
    [] type = "create_subreddit" -> "CreateSubredditRequest"
    [] type = "vote" -> "VoteRequest"
    [] OTHER -> ""

\* requestType, payload and context as passed to pool.ProcessRequest
Bind(raw) ==
  [Type |-> raw.Type,
   Payload |->
     IF raw.Type \in {"join_subreddit", "leave_subreddit"}
     THEN [NoPayload EXCEPT !.T = BoundTypeOf(raw.Type), !.SubredditID = Atoi(raw.Param).n]
     ELSE [raw.Body EXCEPT !.T = BoundTypeOf(raw.Type)],
   user_id |-> raw.user_id]

\* the handler answers 400 Bad Request and returns without calling
\* pool.ProcessRequest
HReject(c, raw) ==
  /\ cpc[c] = "idle"
  /\ BindError(raw) # Nil
  /\ cpc' = [cpc EXCEPT ![c] = "rejected"]
  /\ cret' = [cret EXCEPT ![c] = BindError(raw)]
  /\ resp' = [resp EXCEPT ![c] = Append(@, 400)]
  /\ UNCHANGED <<poolVars, cin, cactor, cchan, msgVars, workerVars, dbVars, opVars,
                 readVars, auxVars, histVars>>

\* the handler's request passed binding and is given to pool.ProcessRequest
\* (binding reads only the HTTP request, so the request a caller carries is
\* drawn when ProcessRequest builds the envelope)
HSend(c, raw) ==
  /\ BindError(raw) = Nil
  /\ PSend(c, Bind(raw))

\* ------------------------------------------ RequestProcessingActor.Receive
\* the payload type each process function asserts
PayloadTypeOf(type) ==
  CASE type = "create_post" -> "CreatePostRequest"
    [] type = "create_comment" -> "CreateCommentRequest"
    [] type = "vote" -> "VoteRequest"
    [] type = "send_message" -> "SendMessageRequest"
    [] type = "create_subreddit" -> "CreateSubredditRequest"
    [] type = "join_subreddit" -> "JoinSubredditRequest"
    [] type = "leave_subreddit" -> "LeaveSubredditRequest"
    [] OTHER -> "unhandled"

MethodOfSwapped(type) ==
  CASE type = "create_post" -> "CreatePost"
    [] type = "create_comment" -> "CreateComment"
    [] type = "vote" -> "Vote"
    [] type = "send_message" -> "SendDirectMessage"
    [] type = "create_subreddit" -> "CreateSubreddit"
    [] type = "join_subreddit" -> "LeaveSubreddit"
    [] type = "leave_subreddit" -> "JoinSubreddit"
    [] OTHER -> "none"

\* the DatabaseManager method each process function calls
MethodOf(type) ==
  CASE type = "create_post" -> "CreatePost"
    [] type = "create_comment" -> "CreateComment"
    [] type = "vote" -> "Vote"
    [] type = "send_message" -> "SendDirectMessage"
    [] type = "create_subreddit" -> "CreateSubreddit"
    [] type = "join_subreddit" -> "JoinSubreddit"
    [] type = "leave_subreddit" -> "LeaveSubreddit"
    [] OTHER -> "none"

\* userID from the context's user_id, the other arguments from the payload
ArgsOf(req) ==
  [op |-> MethodOf(req.Type), userID |-> req.Context.user_id,
   TargetID |-> req.Payload.TargetID, TargetType |-> req.Payload.TargetType,
   Value |-> req.Payload.Value, SubredditID |-> req.Payload.SubredditID,
   PostID |-> req.Payload.PostID, ParentCommentID |-> req.Payload.ParentCommentID,
   username |-> "", name |-> req.Payload.Name, SubscribedUserID |-> 0,
   ToUserID |-> req.Payload.ToUserID]

ActorIdleBug(w) == TRUE

ActorIdleInTurn(w) ==
  /\ wpc[w] = "idle"
  /\ \A v \in Workers : v < w => Len(execLog[v]) > Len(execLog[w])

\* the mailbox invokes Receive for the next message only when the previous
\* invocation has returned
ActorIdle(w) == wpc[w] = "idle"

\* case *Request: switch msg.Type; the process function up to its database call
WReceive(w) ==
  /\ ActorIdle(w)
  /\ mailbox[w] # <<>>
  /\ LET m == Head(mailbox[w])
         req == requests[m]
     IN /\ mailbox' = [mailbox EXCEPT ![w] = Dequeue(@)]
        /\ wmsg' = [wmsg EXCEPT ![w] = m]
        /\ execLog' = [execLog EXCEPT ![w] = Append(@, m)]
        /\ wpc' = [wpc EXCEPT ![w] = "process"]
        /\ IF PayloadTypeOf(req.Type) = "unhandled"
           THEN /\ serr' = [serr EXCEPT ![w] = "unhandled request type"]
                /\ spc' = [spc EXCEPT ![w] = "done"]
                /\ UNCHANGED sarg
           ELSE IF req.Payload.T # PayloadTypeOf(req.Type)
           THEN /\ serr' = [serr EXCEPT ![w] = "invalid payload"]
                /\ spc' = [spc EXCEPT ![w] = "done"]
                /\ UNCHANGED sarg
           ELSE /\ sarg' = [sarg EXCEPT ![w] = ArgsOf(req)]
                /\ spc' = [spc EXCEPT ![w] = "lock"]
                /\ UNCHANGED serr
  /\ UNCHANGED <<poolVars, callerVars, requests, chans, dbVars, sidx, spre, readVars,
                 auxVars, slotLog, enqLog, nsent, outcome>>

ResultChanShared(m) == 1

\* msg.Result
ResultChan(m) == requests[m].Result

AfterReceiveStuck(err) == IF err = Nil THEN "idle" ELSE "stuck"

\* Receive returns after the send whatever err was: the actor is ready for
\* its next message
AfterReceive(err) == "idle"

ResultValueNil(err) == Nil

\* if err != nil { msg.Result <- err } else { msg.Result <- nil }
ResultValue(err) == err

\* the status a process function writes on success
SuccessStatus(type) ==
  IF type \in {"join_subreddit", "leave_subreddit", "vote"} THEN 200 ELSE 201

\* what the process function of a kind writes with req.Context.JSON before
\* it returns err: nothing for a kind Receive does not know and for a failed
\* type assertion (except in processCreatePost), else one status
ProcessResponse(type, err) ==
  CASE err = Nil -> <<SuccessStatus(type)>>
    [] err = "unhandled request type" -> <<>>
    [] err = "invalid payload" -> IF type = "create_post" THEN <<400>> ELSE <<>>
    [] OTHER -> <<500>>

\* the process function writes its response and returns err;
\* msg.Result <- err (or nil)
WComplete(w) ==
  /\ wpc[w] = "process"
  /\ spc[w] = "done"
  /\ Len(chans[ResultChan(wmsg[w])]) < ResultChanCap
  /\ chans' = [chans EXCEPT ![ResultChan(wmsg[w])] = Append(@, ResultValue(serr[w]))]
  /\ nsent' = [nsent EXCEPT ![ResultChan(wmsg[w])] = @ + 1]
  /\ outcome' = [outcome EXCEPT ![wmsg[w]] = serr[w]]
  /\ wpc' = [wpc EXCEPT ![w] = AfterReceive(serr[w])]
  /\ wmsg' = [wmsg EXCEPT ![w] = 0]
  /\ spc' = [spc EXCEPT ![w] = "idle"]
  /\ sarg' = [sarg EXCEPT ![w] = NoArgs]
  /\ serr' = [serr EXCEPT ![w] = Nil]
  /\ resp' = [resp EXCEPT ![requests[wmsg[w]].Context.caller] =
                @ \o ProcessResponse(requests[wmsg[w]].Type, serr[w])]
  /\ UNCHANGED <<poolVars, cpc, cin, cactor, cchan, cret, requests, mailbox, dbVars, sidx,
                 spre, readVars, auxVars, slotLog, enqLog, execLog>>

\* a DatabaseManager step of worker w, inside its process function
WStore(w) ==
  /\ wpc[w] = "process"
  /\ WorkerStoreStep(w)
  /\ UNCHANGED <<poolVars, callerVars, msgVars, workerVars, readVars, ndirect, histVars>>

\* ------------------------------------------- handlers calling the manager
\* a handler goroutine (registerUser, resetDatabase, or any direct caller of a
\* DatabaseManager method) starts a call
DirectCall(a) ==
  /\ spc[Direct] = "idle"
  /\ ndirect < MaxDirectCalls
  /\ ndirect' = ndirect + 1
  /\ sarg' = [sarg EXCEPT ![Direct] = a]
  /\ spc' = [spc EXCEPT ![Direct] = "lock"]
  /\ UNCHANGED <<poolVars, callerVars, msgVars, workerVars, dbVars, serr, sidx, spre,
                 readVars, faults, histVars>>

DirectStore ==
  /\ StoreStep(Direct)
  /\ UNCHANGED <<poolVars, callerVars, msgVars, workerVars, readVars, ndirect, histVars>>

\* the method has returned to the handler
DirectReturn ==
  /\ spc[Direct] = "done"
  /\ spc' = [spc EXCEPT ![Direct] = "idle"]
  /\ sarg' = [sarg EXCEPT ![Direct] = NoArgs]
  /\ serr' = [serr EXCEPT ![Direct] = Nil]
  /\ UNCHANGED <<poolVars, callerVars, msgVars, workerVars, dbVars, sidx, spre, readVars,
                 auxVars, histVars>>

\* ------------------------------------------------------------ read methods
VisibleDirty(d, t) ==
  IF \E p \in StoreProcs : t[p].open
  THEN (t[CHOOSE p \in StoreProcs : t[p].open]).d
  ELSE d

\* dm.db.Query on a connection of its own: the committed database, not the
\* writes of a transaction another connection has open
Visible(d, t) == d

\* GetFeed, GetTopUsers, GetAllSubreddits, GetUserJoinedSubreddits, ...:
\* dm.mu.RLock()
RLock ==
  /\ rpc = "idle"
  /\ DbMutexFree(dmu)
  /\ dmu' = Reader
  /\ rpc' = "query"
  /\ UNCHANGED <<poolVars, callerVars, msgVars, workerVars, db, tx, opVars, rseen,
                 auxVars, histVars>>

\* rows, err := dm.db.Query(...) and the scan of its rows
RQuery ==
  /\ rpc = "query"
  /\ rseen' = Visible(db, tx)
  /\ rpc' = "unlock"
  /\ UNCHANGED <<poolVars, callerVars, msgVars, workerVars, dbVars, opVars, auxVars,
                 histVars>>

\* defer dm.mu.RUnlock()
RUnlock ==
  /\ rpc = "unlock"
  /\ dmu' = Unlock(dmu)
  /\ rpc' = "idle"
  /\ rseen' = EmptyDb
  /\ UNCHANGED <<poolVars, callerVars, msgVars, workerVars, db, tx, opVars, auxVars,
                 histVars>>

\* ---------------------------------------------------------- specifications
SeedNames == <<"a", "b", "c", "d", "e">>

\* the database file outlives the process: every caller's user is registered
\* and user 1 has written post 1
SeedDb ==
  [EmptyDb EXCEPT
     !.users = {[id |-> i, username |-> SeedNames[i], karma |-> 0] : i \in Callers},
     !.posts = {[id |-> 1, author_id |-> 1, subreddit_id |-> 1]},
     !.seq = [EmptySeq EXCEPT !.users = NumCallers, !.posts = 1]]

\* d: the database file found at start; f: store failures already used up;
\* n: direct calls already made
InitAll(d, f, n) ==
  /\ roundRobin = 0
  /\ pmu = NoHolder
  /\ cpc = [c \in Callers |-> "idle"]
  /\ cin = [c \in Callers |-> NoInput]
  /\ cactor = [c \in Callers |-> 0]
  /\ cchan = [c \in Callers |-> 0]
  /\ cret = [c \in Callers |-> Nil]
  /\ resp = [c \in Callers |-> <<>>]
  /\ requests = [c \in Callers |-> NoRequest]
  /\ chans = [c \in Callers |-> <<>>]
  /\ mailbox = [w \in Workers |-> <<>>]
  /\ wpc = [w \in Workers |-> "idle"]
  /\ wmsg = [w \in Workers |-> 0]
  /\ dmu = NoHolder
  /\ db = d
  /\ tx = [p \in StoreProcs |-> NoTx]
  /\ spc = [p \in StoreProcs |-> "idle"]
  /\ sarg = [p \in StoreProcs |-> NoArgs]
  /\ serr = [p \in StoreProcs |-> Nil]
  /\ sidx = [p \in StoreProcs |-> 1]
  /\ spre = [p \in StoreProcs |-> EmptyDb]
  /\ rpc = "idle"
  /\ rseen = EmptyDb
  /\ faults = f
  /\ ndirect = n
  /\ slotLog = <<>>
  /\ enqLog = [w \in Workers |-> <<>>]
  /\ execLog = [w \in Workers |-> <<>>]
  /\ nsent = [c \in Callers |-> 0]
  /\ outcome = [c \in Callers |-> "none"]

InitWith(d, f) == InitAll(d, f, 0)

VotePayload(id, type, value) ==
  [NoPayload EXCEPT !.T = "VoteRequest", !.TargetID = id, !.TargetType = type, !.Value = value]

CommentPayload(post, parent) ==
  [NoPayload EXCEPT !.T = "CreateCommentRequest", !.PostID = post, !.ParentCommentID = parent]

SubredditPayload(name) == [NoPayload EXCEPT !.T = "CreateSubredditRequest", !.Name = name]

JoinPayload(sub) == [NoPayload EXCEPT !.T = "JoinSubredditRequest", !.SubredditID = sub]

LeavePayload(sub) == [NoPayload EXCEPT !.T = "LeaveSubredditRequest", !.SubredditID = sub]

PostPayload(sub) == [NoPayload EXCEPT !.T = "CreatePostRequest", !.SubredditID = sub]

SendMessagePayload(to) == [NoPayload EXCEPT !.T = "SendMessageRequest", !.ToUserID = to]

\* what the gateway goroutine of caller c may submit. Caller 1 upvotes post 1
\* as user 1; caller 2 repeats that upvote (same X-User-ID) or downvotes as
\* user 2; caller 3 downvotes as user 3 or comments; any further caller c
\* upvotes as user c
Submissions(c) ==
  CASE c = 1 -> {[Type |-> "vote", Payload |-> VotePayload(1, "post", 1), user_id |-> 1]}
    [] c = 2 -> {[Type |-> "vote", Payload |-> VotePayload(1, "post", 1), user_id |-> 1],
                 [Type |-> "vote", Payload |-> VotePayload(1, "post", -1), user_id |-> 2]}
    [] c = 3 -> {[Type |-> "vote", Payload |-> VotePayload(1, "post", -1), user_id |-> 3],
                 [Type |-> "create_comment", Payload |-> CommentPayload(1, 0), user_id |-> 3]}
    [] OTHER -> {[Type |-> "vote", Payload |-> VotePayload(1, "post", 1), user_id |-> c]}

\* the pool and its workers; the store rejects a statement only for a
\* constraint it enforces (no injected failure)
Init == InitWith(SeedDb, MaxFaults)

Next ==
  \/ \E c \in Callers : PLock(c)
  \/ \E c \in Callers : PAdvance(c)
  \/ \E c \in Callers : \E input \in Submissions(c) : PSend(c, input)
  \/ \E c \in Callers : PReturn(c)
  \/ \E w \in Workers : WReceive(w)
  \/ \E w \in Workers : WStore(w)
  \/ \E w \in Workers : WComplete(w)

Spec == Init /\ [][Next]_vars

\* the Go scheduler keeps running some runnable goroutine: the system does
\* not stop while a caller or a worker can take a step
Fairness == WF_vars(Next)

FairSpec == Init /\ [][Next]_vars /\ Fairness

\* the arguments of the methods called directly on the DatabaseManager
DirectInputs ==
  {[NoArgs EXCEPT !.op = "RegisterUser", !.username = n] : n \in {"a", "b"}}
  \cup {[NoArgs EXCEPT !.op = "CreatePost", !.userID = u, !.SubredditID = 1] : u \in {1, 2}}
  \cup {[NoArgs EXCEPT !.op = "CreateComment", !.userID = u, !.PostID = 1] : u \in {1, 2}}
  \cup {[NoArgs EXCEPT !.op = "Vote", !.userID = u, !.TargetID = 1, !.TargetType = t,
                       !.Value = v] : u \in {1, 2}, t \in {"post", "comment"}, v \in {-1, 1}}
  \cup {[NoArgs EXCEPT !.op = "ResetDatabase"]}

\* the DatabaseManager alone, on a new database file: a sequence of method
\* calls, any statement of which the store may reject
InitStore == InitWith(EmptyDb, 0)

NextStore ==
  \/ \E a \in DirectInputs : DirectCall(a)
  \/ DirectStore
  \/ DirectReturn

SpecStore == InitStore /\ [][NextStore]_vars

\* the community, membership, subscription and reset methods
MemberInputs ==
  {[NoArgs EXCEPT !.op = "CreateSubreddit", !.name = n, !.userID = u] :
     n \in {"x", "y"}, u \in {1, 2}}
  \cup {[NoArgs EXCEPT !.op = o, !.userID = u, !.SubredditID = sub] :
          o \in {"JoinSubreddit", "LeaveSubreddit"}, u \in {1, 2}, sub \in {1, 2}}
  \cup {[NoArgs EXCEPT !.op = "SubscribeToUser", !.userID = 1, !.SubscribedUserID = 2]}
  \cup {[NoArgs EXCEPT !.op = "ResetDatabase"]}

NextMembers ==
  \/ \E a \in MemberInputs : DirectCall(a)
  \/ DirectStore
  \/ DirectReturn

\* the DatabaseManager alone, on a new database file, called for communities
SpecMembers == InitStore /\ [][NextMembers]_vars

\* the methods that write content and user state, called by user 1: a post
\* in community 1, a comment on post 1 with no parent or under comment 1 or 2,
\* a message or a subscription to user 2, a vote on post 1 or comment 1
ContentInputs ==
  {[NoArgs EXCEPT !.op = "RegisterUser", !.username = "a"],
   [NoArgs EXCEPT !.op = "CreateSubreddit", !.name = "x", !.userID = 1],
   [NoArgs EXCEPT !.op = "JoinSubreddit", !.userID = 1, !.SubredditID = 1],
   [NoArgs EXCEPT !.op = "LeaveSubreddit", !.userID = 1, !.SubredditID = 1],
   [NoArgs EXCEPT !.op = "CreatePost", !.userID = 1, !.SubredditID = 1],
   [NoArgs EXCEPT !.op = "SendDirectMessage", !.userID = 1, !.ToUserID = 2],
   [NoArgs EXCEPT !.op = "SubscribeToUser", !.userID = 1, !.SubscribedUserID = 2],
   [NoArgs EXCEPT !.op = "UnsubscribeFromUser", !.userID = 1, !.SubscribedUserID = 2],
   [NoArgs EXCEPT !.op = "ResetDatabase"]}
  \cup {[NoArgs EXCEPT !.op = "CreateComment", !.userID = 1, !.PostID = 1,
                       !.ParentCommentID = parent] : parent \in {0, 1, 2}}
  \cup {[NoArgs EXCEPT !.op = "Vote", !.userID = 1, !.TargetID = 1, !.TargetType = t,
                       !.Value = 1] : t \in {"post", "comment"}}

NextContent ==
  \/ \E a \in ContentInputs : DirectCall(a)
  \/ DirectStore
  \/ DirectReturn

\* the DatabaseManager alone, on the database file of earlier runs; any
\* statement may be rejected by the store
InitContent == InitAll(SeedDb, 0, 0)

SpecContent == InitContent /\ [][NextContent]_vars

\* what the gateway goroutines submit while a reader runs: caller 2 creates
\* community "x", every other caller c votes on post 1 as user c
ReadSubmissions(c) ==
  IF c = 2
  THEN {[Type |-> "create_subreddit", Payload |-> SubredditPayload("x"), user_id |-> 2]}
  ELSE {[Type |-> "vote", Payload |-> VotePayload(1, "post", IF c = 1 THEN 1 ELSE -1),
         user_id |-> c]}

ResetInputs == {[NoArgs EXCEPT !.op = "ResetDatabase"]}

\* one reset is still to come
InitRead == InitAll(SeedDb, MaxFaults, MaxDirectCalls - 1)

NextRead ==
  \/ \E c \in Callers : PLock(c)
  \/ \E c \in Callers : PAdvance(c)
  \/ \E c \in Callers : \E input \in ReadSubmissions(c) : PSend(c, input)
  \/ \E c \in Callers : PReturn(c)
  \/ \E w \in Workers : WReceive(w)
  \/ \E w \in Workers : WStore(w)
  \/ \E w \in Workers : WComplete(w)
  \/ \E a \in ResetInputs : DirectCall(a)
  \/ DirectStore
  \/ DirectReturn
  \/ RLock
  \/ RQuery
  \/ RUnlock

\* the pool, the reset handler and a read handler, all running concurrently
SpecRead == InitRead /\ [][NextRead]_vars

\* what the gateway goroutines submit about community "x" and community id 1,
\* all with the X-User-ID of user 1: caller 1 creates "x"; caller 2 creates "x"
\* too, or joins 1; caller 3 joins or leaves 1; any further caller leaves 1
CommunitySubmissions(c) ==
  CASE c = 1 -> {[Type |-> "create_subreddit", Payload |-> SubredditPayload("x"), user_id |-> 1]}
    [] c = 2 -> {[Type |-> "create_subreddit", Payload |-> SubredditPayload("x"), user_id |-> 1],
                 [Type |-> "join_subreddit", Payload |-> JoinPayload(1), user_id |-> 1]}
    [] c = 3 -> {[Type |-> "join_subreddit", Payload |-> JoinPayload(1), user_id |-> 1],
                 [Type |-> "leave_subreddit", Payload |-> LeavePayload(1), user_id |-> 1]}
    [] OTHER -> {[Type |-> "leave_subreddit", Payload |-> LeavePayload(1), user_id |-> 1]}

NextCommunity ==
  \/ \E c \in Callers : PLock(c)
  \/ \E c \in Callers : PAdvance(c)
  \/ \E c \in Callers : \E input \in CommunitySubmissions(c) : PSend(c, input)
  \/ \E c \in Callers : PReturn(c)
  \/ \E w \in Workers : WReceive(w)
  \/ \E w \in Workers : WStore(w)
  \/ \E w \in Workers : WComplete(w)
  \/ \E a \in ResetInputs : DirectCall(a)
  \/ DirectStore
  \/ DirectReturn

\* the pool serving community requests while the reset handler runs once
SpecCommunity == InitRead /\ [][NextCommunity]_vars

VoteBody(id, type, value) ==
  [NoPayload EXCEPT !.TargetID = id, !.TargetType = type, !.Value = value]

\* the HTTP requests that reach the handlers, well-formed and not: caller 1
\* votes, with value 1 or 2; caller 2 votes on a target of kind "user" or
\* joins community "abc" or "1"; caller 3 reaches a handler built for the
\* kind "delete_post", or creates a community with a body that does not
\* parse, that lacks the name, or that is complete; any further caller votes
GatewayRequests(c) ==
  CASE c = 1 ->
         {[NoRaw EXCEPT !.Type = "vote", !.Body = VoteBody(1, "post", v), !.user_id = 1] :
            v \in {1, 2}}
    [] c = 2 ->
         {[NoRaw EXCEPT !.Type = "vote", !.Body = VoteBody(1, "user", 1), !.user_id = 2]}
         \cup {[NoRaw EXCEPT !.Type = "join_subreddit", !.Param = id, !.user_id = 2] :
                 id \in {"abc", "1"}}
    [] c = 3 ->
         {[NoRaw EXCEPT !.Type = "delete_post", !.user_id = 3],
          [NoRaw EXCEPT !.Type = "create_subreddit", !.Json = "malformed", !.user_id = 3],
          [NoRaw EXCEPT !.Type = "create_subreddit", !.user_id = 3],
          [NoRaw EXCEPT !.Type = "create_subreddit", !.Body.Name = "x", !.user_id = 3]}
    [] OTHER ->
         {[NoRaw EXCEPT !.Type = "vote", !.Body = VoteBody(1, "post", -1), !.user_id = c]}

NextGateway ==
  \/ \E c \in Callers : \E raw \in GatewayRequests(c) : HReject(c, raw)
  \/ \E c \in Callers : PLock(c)
  \/ \E c \in Callers : PAdvance(c)
  \/ \E c \in Callers : \E raw \in GatewayRequests(c) : HSend(c, raw)
  \/ \E c \in Callers : PReturn(c)
  \/ \E w \in Workers : WReceive(w)
  \/ \E w \in Workers : WStore(w)
  \/ \E w \in Workers : WComplete(w)

\* the gateway handlers in front of the pool
SpecGateway == Init /\ [][NextGateway]_vars

\* requests whose execution fails next to ones that succeed: callers 1 and 2
\* cast the same vote (the second to execute hits the primary key), caller 3
\* submits a kind no worker handles, any further caller a vote whose payload
\* is of another kind's type
WedgeSubmissions(c) ==
  CASE c \in {1, 2} ->
         {[Type |-> "vote", Payload |-> VotePayload(1, "post", 1), user_id |-> 1]}
    [] c = 3 -> {[Type |-> "bogus", Payload |-> NoPayload, user_id |-> 3]}
    [] OTHER -> {[Type |-> "vote", Payload |-> CommentPayload(1, 0), user_id |-> c]}

NextWedge ==
  \/ \E c \in Callers : PLock(c)
  \/ \E c \in Callers : PAdvance(c)
  \/ \E c \in Callers : \E input \in WedgeSubmissions(c) : PSend(c, input)
  \/ \E c \in Callers : PReturn(c)
  \/ \E w \in Workers : WReceive(w)
  \/ \E w \in Workers : WStore(w)
  \/ \E w \in Workers : WComplete(w)

\* the pool given failing requests, under the scheduler's fairness
FairWedge == Init /\ [][NextWedge]_vars /\ WF_vars(NextWedge)

\* what the gateway goroutines submit while a read handler runs: caller 1 joins
\* community 1 as user 1, caller 2 creates community "x" as user 2, every
\* other caller c votes post 1 up as user c; nothing deletes a row
DurableSubmissions(c) ==
  CASE c = 1 -> {[Type |-> "join_subreddit", Payload |-> JoinPayload(1), user_id |-> 1]}
    [] c = 2 -> {[Type |-> "create_subreddit", Payload |-> SubredditPayload("x"), user_id |-> 2]}
    [] OTHER -> {[Type |-> "vote", Payload |-> VotePayload(1, "post", 1), user_id |-> c]}

NextDurable ==
  \/ \E c \in Callers : PLock(c)
  \/ \E c \in Callers : PAdvance(c)
  \/ \E c \in Callers : \E input \in DurableSubmissions(c) : PSend(c, input)
  \/ \E c \in Callers : PReturn(c)
  \/ \E w \in Workers : WReceive(w)
  \/ \E w \in Workers : WStore(w)
  \/ \E w \in Workers : WComplete(w)
  \/ RLock
  \/ RQuery
  \/ RUnlock

\* the pool serving mutations while read handlers run, one after the other
SpecDurable == Init /\ [][NextDurable]_vars

\* what the callers of ProcessRequest submit, over all seven kinds and a kind
\* the worker does not know: caller 1 posts in community 1, comments on post 1
\* or writes to user 2; caller 2 creates community "x", joins community 2 or
\* leaves community 1; caller 3 votes on post 1 or submits a vote payload
\* under the kind "delete_post"; any further caller submits "delete_post"
KindSubmissions(c) ==
  CASE c = 1 -> {[Type |-> "create_post", Payload |-> PostPayload(1), user_id |-> 1],
                 [Type |-> "create_comment", Payload |-> CommentPayload(1, 0), user_id |-> 1],
                 [Type |-> "send_message", Payload |-> SendMessagePayload(2), user_id |-> 1]}
    [] c = 2 -> {[Type |-> "create_subreddit", Payload |-> SubredditPayload("x"), user_id |-> 2],
                 [Type |-> "join_subreddit", Payload |-> JoinPayload(2), user_id |-> 2],
                 [Type |-> "leave_subreddit", Payload |-> LeavePayload(1), user_id |-> 2]}
    [] c = 3 -> {[Type |-> "vote", Payload |-> VotePayload(1, "post", 1), user_id |-> 3],
                 [Type |-> "delete_post", Payload |-> VotePayload(1, "post", 1), user_id |-> 3]}
    [] OTHER -> {[Type |-> "delete_post", Payload |-> NoPayload, user_id |-> c]}

\* the database file of earlier runs, with communities 1 and 2, of which
\* user 2 belongs to the first
KindDb ==
  [SeedDb EXCEPT
     !.subreddits = {[id |-> 1, name |-> "a"], [id |-> 2, name |-> "b"]},
     !.subreddit_members = {[rowid |-> 1, subreddit_id |-> 1, user_id |-> 2]},
     !.seq.subreddits = 2]

InitKinds == InitWith(KindDb, MaxFaults)

NextKinds ==
  \/ \E c \in Callers : PLock(c)
  \/ \E c \in Callers : PAdvance(c)
  \/ \E c \in Callers : \E input \in KindSubmissions(c) : PSend(c, input)
  \/ \E c \in Callers : PReturn(c)
  \/ \E w \in Workers : WReceive(w)
  \/ \E w \in Workers : WStore(w)
  \/ \E w \in Workers : WComplete(w)

\* the pool given requests of every kind
SpecKinds == InitKinds /\ [][NextKinds]_vars

\* votes as they may reach DatabaseManager.Vote, allowed by the table's CHECK
\* clauses or not: by user 1 or 2, on target 1 of kind post, comment or user,
\* with value -1, 1 or 2; a comment by user 2 on post 1; a reset
LedgerInputs ==
  {[NoArgs EXCEPT !.op = "Vote", !.userID = u, !.TargetID = 1, !.TargetType = t,
                  !.Value = v] : u \in {1, 2}, t \in {"post", "comment", "user"},
                                v \in {-1, 1, 2}}
  \cup {[NoArgs EXCEPT !.op = "CreateComment", !.userID = 2, !.PostID = 1],
        [NoArgs EXCEPT !.op = "ResetDatabase"]}

NextLedger ==
  \/ \E a \in LedgerInputs : DirectCall(a)
  \/ DirectStore
  \/ DirectReturn

\* the DatabaseManager alone, on the database file of earlier runs, called
\* for votes
SpecLedger == InitContent /\ [][NextLedger]_vars

\* the HTTP requests behind the responses: caller 1 votes post 1 up as user 1;
\* caller 2 sends the same vote with the same X-User-ID, or a vote on a
\* target of kind "user"; caller 3 creates community "x", with a body that
\* parses or not; any further caller votes post 1 down as itself
ResponseRequests(c) ==
  CASE c = 1 ->
         {[NoRaw EXCEPT !.Type = "vote", !.Body = VoteBody(1, "post", 1), !.user_id = 1]}
    [] c = 2 ->
         {[NoRaw EXCEPT !.Type = "vote", !.Body = VoteBody(1, t, 1), !.user_id = 1] :
            t \in {"post", "user"}}
    [] c = 3 ->
         {[NoRaw EXCEPT !.Type = "create_subreddit", !.Body.Name = "x", !.Json = j,
                        !.user_id = 3] : j \in {"ok", "malformed"}}
    [] OTHER ->
         {[NoRaw EXCEPT !.Type = "vote", !.Body = VoteBody(1, "post", -1), !.user_id = c]}

NextResponses ==
  \/ \E c \in Callers : \E raw \in ResponseRequests(c) : HReject(c, raw)
  \/ \E c \in Callers : PLock(c)
  \/ \E c \in Callers : PAdvance(c)
  \/ \E c \in Callers : \E raw \in ResponseRequests(c) : HSend(c, raw)
  \/ \E c \in Callers : PReturn(c)
  \/ \E w \in Workers : WReceive(w)
  \/ \E w \in Workers : WStore(w)
  \/ \E w \in Workers : WComplete(w)

\* the gateway handlers, the pool and the responses they write
SpecResponses == Init /\ [][NextResponses]_vars

\* a step of some actor goroutine
WorkerStep == \E w \in Workers : WReceive(w) \/ WStore(w) \/ WComplete(w)

\* the actors keep running while one of them can take a step; nothing is
\* assumed of the callers: a call may stay at its receive for ever
FairWorkers == Init /\ [][NextWedge]_vars /\ WF_vars(WorkerStep)

NextExclusive ==
  \/ \E c \in Callers : PLock(c)
  \/ \E c \in Callers : PAdvance(c)
  \/ \E c \in Callers : \E input \in ReadSubmissions(c) : PSend(c, input)
  \/ \E c \in Callers : PReturn(c)
  \/ \E w \in Workers : WReceive(w)
  \/ \E w \in Workers : WStore(w)
  \/ \E w \in Workers : WComplete(w)
  \/ \E a \in ContentInputs : DirectCall(a)
  \/ DirectStore
  \/ DirectReturn
  \/ RLock
  \/ RQuery
  \/ RUnlock

\* the pool, a handler that calls one write method of the manager directly
\* and a read handler, all running concurrently
SpecExclusive == InitRead /\ [][NextExclusive]_vars

NextEmptyPool ==
  \/ \E c \in Callers : PLockEmpty(c)
  \/ \E a \in ResetInputs : DirectCall(a)
  \/ DirectStore
  \/ DirectReturn

\* a process whose pool was built with no workers: the gateway handlers call
\* ProcessRequest while the reset route, which bypasses the pool, is served
SpecEmptyPool == Init /\ [][NextEmptyPool]_vars

\* ------------------------------------------------------------------ claims
AllReturned == \A c \in Callers : cpc[c] = "done"

\* C1: under fair scheduling every ProcessRequest call receives a value on its
\* result channel and returns, whether the store operation succeeded or failed
\* (a call that has returned stays returned, so this is: eventually all have)
C1_Liveness == <>AllReturned

\* every call has returned, one of them with the error of a rejected statement
C1_Witness ==
  /\ AllReturned
  /\ \E c \in Callers : cret[c] = "failed to record vote"

Submitted == {c \in Callers : cpc[c] \in {"wait", "done"}}

\* the positions (worker, index) at which request r was handed to Receive
Executions(r) ==
  UNION {{<<w, i>> : i \in {j \in DOMAIN execLog[w] : execLog[w][j] = r}} : w \in Workers}

Executed(r) == Executions(r) # {}

\* C2: every submitted request has been handed to Receive at most once over
\* all workers, and at most one value has ever been sent on its result channel
C2_ExactlyOnce ==
  \A c \in Callers :
    /\ Cardinality(Executions(NewRequest(c))) <= 1
    /\ nsent[NewChan(c)] <= 1
    /\ c \notin Submitted => (Executions(NewRequest(c)) = {} /\ nsent[NewChan(c)] = 0)

\* every request was executed once and answered once
C2_Witness ==
  /\ AllReturned
  /\ \A r \in Callers : Cardinality(Executions(r)) = 1 /\ nsent[requests[r].Result] = 1

\* C3: the value ProcessRequest returns to a caller is what executing that
\* caller's own request returned
C3_Correlation ==
  \A c \in Callers :
    cpc[c] = "done" => (outcome[NewRequest(c)] # "none" /\ cret[c] = outcome[NewRequest(c)])

\* two callers have returned, one with nil and one with an error
C3_Witness ==
  \E c1, c2 \in Callers :
    /\ cpc[c1] = "done" /\ cpc[c2] = "done"
    /\ cret[c1] = Nil /\ cret[c2] # Nil

\* C4: the k-th call to take a round-robin slot (k = 0, 1, ...) gets worker k mod N
C4_RoundRobin ==
  \A k \in 1 .. Len(slotLog) : slotLog[k].actor = ActorAt((k - 1) % PoolSize)

\* the counter has wrapped around while worker 0 is still busy with its first request
C4_Witness ==
  /\ Len(slotLog) > PoolSize
  /\ slotLog[PoolSize + 1].actor = 0
  /\ wpc[0] = "process"
  /\ Len(execLog[0]) = 1

InCritical == {c \in Callers : cpc[c] = "advance"}

Advanced == {c \in Callers : cpc[c] \in {"send", "wait", "done"}}

\* C5: the read and the increment of the counter are one atomic unit: at most
\* one call is between them, the counter counts every completed increment, and
\* the M slots taken so far are 0 .. M-1 modulo N, each taken by one call
C5_AtomicCounter ==
  /\ Cardinality(InCritical) <= 1
  /\ roundRobin = Cardinality(Advanced) % PoolSize
  /\ Len(slotLog) = Cardinality(Advanced) + Cardinality(InCritical)
  /\ \A i \in Workers :
       Cardinality({k \in 1 .. Len(slotLog) : slotLog[k].actor = ActorAt(i)})
         = Cardinality({k \in 1 .. Len(slotLog) : (k - 1) % PoolSize = i})
  /\ \A j, k \in 1 .. Len(slotLog) : j # k => slotLog[j].caller # slotLog[k].caller

\* one call holds the pool mutex while another has yet to take its slot
C5_Witness ==
  \E c1, c2 \in Callers :
    /\ cpc[c1] = "advance" /\ pmu = c1
    /\ cpc[c2] = "idle"
    /\ Len(slotLog) >= 2

\* the requests worker w has started and not yet answered
Unanswered(w) == {i \in 1 .. Len(execLog[w]) : outcome[execLog[w][i]] = "none"}

\* C6: a worker executes at most one request at a time, and starts the next
\* only after it has sent the result of the previous one
C6_Sequential ==
  \A w \in Workers :
    /\ Cardinality(Unanswered(w)) <= 1
    /\ Unanswered(w) \subseteq {Len(execLog[w])}
    /\ \A i \in 1 .. Len(execLog[w]) :
         i \notin Unanswered(w) => nsent[requests[execLog[w][i]].Result] >= 1
    /\ (wpc[w] = "idle") = (Unanswered(w) = {})

\* two workers are executing at the same time, one of them its second request
C6_Witness ==
  /\ \A w \in Workers : wpc[w] = "process"
  /\ \E w \in Workers : Len(execLog[w]) = 2

IsPrefix(s, t) == Len(s) <= Len(t) /\ \A i \in 1 .. Len(s) : s[i] = t[i]

\* C7 as stated: two requests routed to the same worker execute in the order
\* in which their calls took the round-robin slot
C7_SlotOrder ==
  \A j, k \in 1 .. Len(slotLog) :
    (j < k /\ slotLog[j].actor = slotLog[k].actor /\ Executed(slotLog[k].caller))
      => Executed(slotLog[j].caller)

\* C7 amended: two requests routed to the same worker execute in the order in
\* which Send put them into that worker's mailbox
C7_MailboxOrder ==
  \A w \in Workers :
    /\ IsPrefix(execLog[w], enqLog[w])
    /\ enqLog[w] = execLog[w] \o mailbox[w]

\* a worker has executed two requests that were enqueued against slot order
C7_Witness ==
  \E w \in Workers : \E j, k \in 1 .. Len(slotLog) :
    /\ j < k
    /\ slotLog[j].actor = w /\ slotLog[k].actor = w
    /\ Len(execLog[w]) = 2
    /\ execLog[w][1] = slotLog[k].caller
    /\ execLog[w][2] = slotLog[j].caller

RECURSIVE SumOver(_, _)
\* the sum of f[x] over the finite set S
SumOver(f, S) ==
  IF S = {} THEN 0
  ELSE LET x == CHOOSE y \in S : TRUE IN f[x] + SumOver(f, S \ {x})

KarmaOf(d, id) == (CHOOSE u \in d.users : u.id = id).karma

VoteValues == [c \in Callers |-> requests[c].Payload.Value]

\* all calls were votes on post 1 by distinct users, and all returned nil
AllVotedPostOne ==
  /\ AllReturned
  /\ \A c \in Callers :
       /\ requests[c].Type = "vote"
       /\ requests[c].Payload.TargetID = 1 /\ requests[c].Payload.TargetType = "post"
       /\ cret[c] = Nil
  /\ \A c1, c2 \in Callers :
       c1 # c2 => requests[c1].Context.user_id # requests[c2].Context.user_id

\* C8: once votes cast concurrently on post 1 by distinct users have all
\* completed successfully, the karma of its author (user 1, karma 0 before) is
\* the sum of the vote values
C8_KarmaSum == AllVotedPostOne => KarmaOf(db, 1) = SumOver(VoteValues, Callers)

\* such votes, of both signs, were executed by different workers
C8_Witness ==
  /\ AllVotedPostOne
  /\ \E c1, c2 \in Callers : VoteValues[c1] = 1 /\ VoteValues[c2] = -1
  /\ \A w \in Workers : Len(execLog[w]) >= 1

\* the ids of the users who wrote the target of vote row v
AuthorsOfTarget(d, v) ==
  IF v.target_type = "post"
  THEN {p.author_id : p \in {q \in d.posts : q.id = v.target_id}}
  ELSE {c.author_id : c \in {q \in d.comments : q.id = v.target_id}}

VoteValueOf == [v \in db.votes |-> v.vote_value]

\* C9: each user's karma equals the sum of vote_value over the vote rows
\* whose target that user wrote (in the committed database)
C9_KarmaInvariant ==
  \A u \in db.users :
    u.karma = SumOver(VoteValueOf, {v \in db.votes : u.id \in AuthorsOfTarget(db, v)})

\* the state of a Vote call that is about to return, still holding dm.mu
VoteReturning(p) == spc[p] = "unlock" /\ sarg[p].op = "Vote"

IsAuthor(d, id, a) ==
  IF a.TargetType = "post"
  THEN \E q \in d.posts : q.id = a.TargetID /\ q.author_id = id
  ELSE \E q \in d.comments : q.id = a.TargetID /\ q.author_id = id

\* C10: a Vote call that returns nil has added its vote row and the value to
\* the karma of the target's author and changed nothing else; one that returns
\* an error has left the votes table and every user unchanged
C10_VoteAtomic ==
  \A p \in StoreProcs :
    VoteReturning(p) =>
      LET pre == spre[p]
          row == VoteRow(sarg[p])
      IN IF serr[p] = Nil
         THEN /\ row \notin pre.votes
              /\ db.votes = pre.votes \cup {row}
              /\ db.users = {[u EXCEPT !.karma =
                                IF IsAuthor(pre, u.id, sarg[p]) THEN @ + sarg[p].Value ELSE @]
                             : u \in pre.users}
              /\ db.posts = pre.posts /\ db.comments = pre.comments
         ELSE db = pre

\* the store rejected the karma update of a vote on an existing user's post
C10_Witness ==
  /\ VoteReturning(Direct)
  /\ serr[Direct] = "failed to update karma"
  /\ \E u \in spre[Direct].users : IsAuthor(spre[Direct], u.id, sarg[Direct])

\* the target of the Vote call of p has no row in posts (kind post) or comments
\* (kind comment) when the call takes dm.mu
UnknownTarget(p) == AuthorOf(spre[p], sarg[p].TargetType, sarg[p].TargetID) = {}

\* C11: a Vote call whose target id names no existing post or comment returns
\* an error, records no vote row and changes no user's karma
C11_UnknownTarget ==
  \A p \in StoreProcs :
    (VoteReturning(p) /\ UnknownTarget(p)) => (serr[p] # Nil /\ db = spre[p])

\* the Vote call of p repeats a cast: the same user, target, kind and value
\* are already a row of the ledger when the call takes dm.mu
RepeatedCast(p) == VoteReturning(p) /\ VoteRow(sarg[p]) \in spre[p].votes

Returning(p, op) == spc[p] = "unlock" /\ sarg[p].op = op

\* C13: a CreateSubreddit call that returns nil has committed one subreddit
\* row with a new name and the membership row of its creator in it; one that
\* returns an error (name taken, membership insert rejected, or any statement
\* failed) has left subreddits, subreddit_members and all else unchanged
C13_CreateAtomic ==
  \A p \in StoreProcs :
    Returning(p, "CreateSubreddit") =>
      LET pre == spre[p]
          id == NextId(pre, "subreddits")
      IN IF serr[p] = Nil
         THEN /\ ~SubredditNameTaken(pre, sarg[p].name)
              /\ db.subreddits = pre.subreddits \cup {[id |-> id, name |-> sarg[p].name]}
              /\ ~IsMember(pre, id, sarg[p].userID)
              /\ \E m \in db.subreddit_members :
                   /\ m.subreddit_id = id /\ m.user_id = sarg[p].userID
                   /\ db.subreddit_members = pre.subreddit_members \cup {m}
         ELSE db = pre

\* the store itself rejected the founder's membership row (the row was there
\* before the community) after the subreddit row had been inserted
C13_Witness ==
  /\ Returning(Direct, "CreateSubreddit")
  /\ serr[Direct] = "failed to add creator to subreddit"
  /\ faults = 0
  /\ spre[Direct].subreddit_members # {}

\* in d every vote row on a user's content is counted in that user's karma
KarmaApplied(d) ==
  \A u \in d.users :
    u.karma = SumOver([v \in d.votes |-> v.vote_value],
                      {v \in d.votes : u.id \in AuthorsOfTarget(d, v)})

\* in d every subreddit row has a membership row
FounderPresent(d) ==
  \A r \in d.subreddits : \E m \in d.subreddit_members : m.subreddit_id = r.id

\* p is inside a write method: between dm.mu.Lock() and the deferred Unlock
Writing(p) == spc[p] \notin {"idle", "lock", "done"}

\* C14: what a read method's query returns while mutations run on the workers
\* and a reset runs: the committed database at a moment when no write method
\* is between its Lock and its Unlock and no transaction is open; in it every
\* vote row has its karma delta applied and every subreddit row a membership row
C14_NoHalfApplied ==
  rpc = "unlock" =>
    /\ rseen = db
    /\ \A p \in StoreProcs : ~Writing(p) /\ ~tx[p].open
    /\ KarmaApplied(rseen)
    /\ FounderPresent(rseen)

\* the reader has read a vote row and a subreddit row while a worker and the
\* reset both wait for dm.mu
C14_Witness ==
  /\ rpc = "unlock"
  /\ rseen.votes # {} /\ rseen.subreddits # {}
  /\ \E w \in Workers : spc[w] = "lock"
  /\ spc[Direct] = "lock"

NamesUnique(d) == \A r1, r2 \in d.subreddits : r1.name = r2.name => r1 = r2

\* callers c1 and c2 both asked to create a community of the same name, both
\* calls have returned, and no reset has started meanwhile
RacedCreates(c1, c2) ==
  /\ c1 # c2
  /\ cpc[c1] = "done" /\ cpc[c2] = "done"
  /\ requests[c1].Type = "create_subreddit" /\ requests[c2].Type = "create_subreddit"
  /\ requests[c1].Payload.Name = requests[c2].Payload.Name
  /\ spc[Direct] = "idle" /\ ndirect < MaxDirectCalls

\* a CreateSubreddit call whose name is already a row's name returns an error
UsedNameRejected ==
  \A p \in StoreProcs :
    (Returning(p, "CreateSubreddit") /\ SubredditNameTaken(spre[p], sarg[p].name))
      => serr[p] = "failed to create subreddit"

\* C15: no two subreddit rows have the same name, a create with a used name
\* returns an error, and of two racing creates of one name exactly one succeeds
C15_ExactlyOne ==
  /\ NamesUnique(db)
  /\ UsedNameRejected
  /\ \A c1, c2 \in Callers :
       RacedCreates(c1, c2) => ((cret[c1] = Nil) # (cret[c2] = Nil))

\* the membership rows of d other than those of the pair (subredditID, userID)
OtherMembers(d, subredditID, userID) ==
  {m \in d.subreddit_members : ~(m.subreddit_id = subredditID /\ m.user_id = userID)}

MemberRows(d, subredditID, userID) ==
  {m \in d.subreddit_members : m.subreddit_id = subredditID /\ m.user_id = userID}

\* C16: JoinSubreddit returns nil and leaves the pair a member with one row,
\* LeaveSubreddit returns nil and leaves the pair not a member; neither
\* touches another pair's rows; a join by a member and a leave by a non-member
\* change nothing (so join;join = join and leave;leave = leave)
C16_Idempotent ==
  \A p \in StoreProcs :
    LET pre == spre[p]
        sub == sarg[p].SubredditID
        u == sarg[p].userID
    IN /\ Returning(p, "JoinSubreddit") =>
            /\ serr[p] = Nil
            /\ Cardinality(MemberRows(db, sub, u)) = 1
            /\ OtherMembers(db, sub, u) = OtherMembers(pre, sub, u)
            /\ IsMember(pre, sub, u) => db = pre
       /\ Returning(p, "LeaveSubreddit") =>
            /\ serr[p] = Nil
            /\ MemberRows(db, sub, u) = {}
            /\ OtherMembers(db, sub, u) = OtherMembers(pre, sub, u)
            /\ ~IsMember(pre, sub, u) => db = pre

\* a join by a user who is already a member is about to return while a leave
\* by a user who was not a member has returned
C16_Witness ==
  \E w \in Workers : \E c \in Callers :
    /\ Returning(w, "JoinSubreddit")
    /\ IsMember(spre[w], sarg[w].SubredditID, sarg[w].userID)
    /\ cpc[c] = "done" /\ requests[c].Type = "leave_subreddit" /\ cret[c] = Nil

\* C17: there is at most one membership row per (community, user) pair, in
\* the committed database and in every open transaction
C17_MemberUnique ==
  /\ \A m1, m2 \in db.subreddit_members :
       (m1.subreddit_id = m2.subreddit_id /\ m1.user_id = m2.user_id) => m1 = m2
  /\ \A p \in StoreProcs :
       tx[p].open =>
         \A m1, m2 \in tx[p].d.subreddit_members :
           (m1.subreddit_id = m2.subreddit_id /\ m1.user_id = m2.user_id) => m1 = m2

\* after a reset, a create and a join by its creator have both succeeded and
\* the pair has its row
C17_Witness ==
  /\ ndirect = MaxDirectCalls /\ spc[Direct] = "idle"
  /\ \E c1, c2 \in Callers :
       /\ cpc[c1] = "done" /\ requests[c1].Type = "create_subreddit" /\ cret[c1] = Nil
       /\ cpc[c2] = "done" /\ requests[c2].Type = "join_subreddit" /\ cret[c2] = Nil
  /\ IsMember(db, 1, 1)

MutableTables ==
  {"users", "subreddits", "subreddit_members", "posts", "comments", "votes",
   "direct_messages", "user_subscriptions"}

\* C18: when ResetDatabase returns nil every mutable table is empty and the
\* next row of every auto-numbered table gets the identifier 1
C18_ResetComplete ==
  \A p \in StoreProcs :
    (Returning(p, "ResetDatabase") /\ serr[p] = Nil) =>
      /\ \A t \in MutableTables : db[t] = {}
      /\ \A t \in DOMAIN db.seq : NextId(db, t) = 1

\* C19: when ResetDatabase returns an error, every table and every
\* auto-increment counter is as it was when the call took dm.mu
C19_ResetAllOrNothing ==
  \A p \in StoreProcs :
    (Returning(p, "ResetDatabase") /\ serr[p] # Nil) => db = spre[p]

\* the reset of a store holding a community and its membership row failed in
\* its second loop, after every table had been emptied in the transaction
C19_Witness ==
  /\ Returning(Direct, "ResetDatabase")
  /\ serr[Direct] = "failed to reset auto-increment"
  /\ spre[Direct].subreddits # {} /\ spre[Direct].subreddit_members # {}
  /\ spre[Direct].seq.subreddits > 0

KnownKinds ==
  {"create_post", "create_comment", "send_message", "create_subreddit", "join_subreddit",
   "leave_subreddit", "vote"}

\* the envelope carries a known kind, the fields its kind requires, a target
\* kind and a vote value that are allowed, and a numeric community id
WellFormed(req) ==
  /\ req.Type \in KnownKinds
  /\ req.Type = "vote" =>
       /\ req.Payload.TargetID # 0
       /\ req.Payload.TargetType \in {"post", "comment"}
       /\ req.Payload.Value \in {-1, 1}
  /\ req.Type = "create_subreddit" => req.Payload.Name # ""
  /\ req.Type = "create_post" => req.Payload.SubredditID # 0
  /\ req.Type = "create_comment" => req.Payload.PostID # 0
  /\ req.Type \in {"join_subreddit", "leave_subreddit"} => req.Payload.SubredditID \in Int

\* nothing of a rejected caller's request exists anywhere in the pool
NoTraceOf(c) ==
  /\ requests[NewRequest(c)] = NoRequest
  /\ chans[NewChan(c)] = <<>> /\ nsent[NewChan(c)] = 0
  /\ \A k \in 1 .. Len(slotLog) : slotLog[k].caller # c
  /\ \A w \in Workers :
       /\ \A i \in 1 .. Len(enqLog[w]) : enqLog[w][i] # NewRequest(c)
       /\ \A i \in 1 .. Len(mailbox[w]) : mailbox[w][i] # NewRequest(c)

Rejection(c) == cpc[c] = "idle" /\ cpc'[c] = "rejected"

\* C20: every envelope a worker is sent is well-formed; a request the gateway
\* rejected never took a slot and was never sent; and the step that rejects
\* it leaves the round-robin counter, the mailboxes, the envelopes, the
\* channels and the store unchanged
C20_NeverEnqueued ==
  /\ [](\A c \in Callers :
          /\ requests[NewRequest(c)] # NoRequest => WellFormed(requests[NewRequest(c)])
          /\ cpc[c] = "rejected" => NoTraceOf(c))
  /\ [][\A c \in Callers :
          Rejection(c) => UNCHANGED <<roundRobin, pmu, msgVars, dbVars, histVars>>]_vars

\* a join to community "abc" was rejected while another caller's vote was
\* executed and a third caller holds a slot
C20_Witness ==
  /\ cpc[2] = "rejected" /\ cret[2] = "Invalid subreddit ID"
  /\ cpc[1] = "done" /\ cret[1] = Nil
  /\ Len(slotLog) = 2
  /\ db.votes # {}

PostExists(d, id) == \E q \in d.posts : q.id = id

CommentExists(d, id) == \E q \in d.comments : q.id = id

SubredditExists(d, id) == \E r \in d.subreddits : r.id = id

\* C21: a CreatePost call naming a community that does not exist, and a
\* CreateComment call naming a post or a parent comment that does not exist,
\* return an error and insert no row
C21_MissingParent ==
  \A p \in StoreProcs :
    /\ (Returning(p, "CreatePost") /\ ~SubredditExists(spre[p], sarg[p].SubredditID))
         => (serr[p] # Nil /\ db = spre[p])
    /\ (Returning(p, "CreateComment")
          /\ (~PostExists(spre[p], sarg[p].PostID)
               \/ (sarg[p].ParentCommentID # 0
                    /\ ~CommentExists(spre[p], sarg[p].ParentCommentID))))
         => (serr[p] # Nil /\ db = spre[p])

RECURSIVE Ancestors(_, _, _)
\* the comment ids reached from id by following parent links at most n times
Ancestors(d, id, n) ==
  IF n = 0 THEN {}
  ELSE LET parents == {c.parent_comment_id : c \in {q \in d.comments : q.id = id}} \ {0}
       IN parents \cup UNION {Ancestors(d, q, n - 1) : q \in parents}

\* C22: every non-null parent_comment_id is the id of an existing comment
\* other than the comment itself, and no comment is its own ancestor
C22_Acyclic ==
  \A c \in db.comments :
    /\ c.parent_comment_id # 0 =>
         (CommentExists(db, c.parent_comment_id) /\ c.parent_comment_id # c.id)
    /\ c.id \notin Ancestors(db, c.id, Cardinality(db.comments))

\* the user rows of d2 are those of d1, with the same karma
SameUsers(d1, d2) == d1.users = d2.users

\* C29: a method other than Vote, RegisterUser and ResetDatabase leaves the
\* users table as it was; RegisterUser keeps every row it found; Vote keeps
\* every user and changes the karma only of the author of its target, and
\* only when it commits
C29_UserFrame ==
  \A p \in StoreProcs :
    spc[p] = "unlock" =>
      LET pre == spre[p]
          op == sarg[p].op
      IN CASE op = "ResetDatabase" -> TRUE
           [] op = "RegisterUser" -> pre.users \subseteq db.users
           [] op = "Vote" ->
                /\ Ids(db.users) = Ids(pre.users)
                /\ \A u \in pre.users :
                     KarmaOf(db, u.id) # u.karma =>
                       (serr[p] = Nil /\ IsAuthor(pre, u.id, sarg[p])
                        /\ KarmaOf(db, u.id) = u.karma + sarg[p].Value)
           [] OTHER -> SameUsers(pre, db)

\* user 1 has karma from a vote, and a message sent later is about to return
C29_Witness ==
  /\ Returning(Direct, "SendDirectMessage")
  /\ serr[Direct] = Nil
  /\ KarmaOf(db, 1) = 1 /\ KarmaOf(db, 2) = 0

\* C23: when a worker's store operation is rejected, the database is as the
\* operation found it; the value waiting on a request's Result channel and
\* the value ProcessRequest returns are the value the worker's process
\* function returned for that request
C23_ErrorPropagated ==
  /\ \A w \in Workers : (spc[w] = "unlock" /\ serr[w] # Nil) => db = spre[w]
  /\ \A c \in Callers :
       /\ chans[NewChan(c)] # <<>> => Head(chans[NewChan(c)]) = outcome[NewRequest(c)]
       /\ cpc[c] = "done" => cret[c] = outcome[NewRequest(c)]

\* a caller was returned the primary-key rejection of its vote while the
\* ledger holds the one row of the vote that came first
C23_Witness ==
  \E c \in Callers :
    /\ cpc[c] = "done"
    /\ cret[c] = "failed to record vote" /\ outcome[NewRequest(c)] = "failed to record vote"
    /\ Cardinality(db.votes) = 1
    /\ KarmaOf(db, 1) = 1

\* every request has been executed and answered and every worker is ready
AllCompleted ==
  /\ \A c \in Callers : outcome[NewRequest(c)] # "none"
  /\ \A w \in Workers : wpc[w] = "idle" /\ mailbox[w] = <<>>

\* C24: under fair scheduling every request routed to a worker is eventually
\* dequeued and completed, also those routed to it after a request whose
\* execution failed
C24_NoWedge == <>AllCompleted

\* a worker completed a request successfully after one that it failed
C24_Witness ==
  \E w \in Workers :
    /\ Len(execLog[w]) >= 2
    /\ outcome[execLog[w][1]] \notin {"none", Nil}
    /\ outcome[execLog[w][2]] = Nil

\* the ProcessRequest call of c can never proceed: it waits for p.mu, which
\* a call that panicked still holds
BlockedForever(c) == cpc[c] = "idle" /\ pmu # NoHolder /\ cpc[pmu] = "panic"

\* C25: on a pool without workers a ProcessRequest call neither crashes nor
\* blocks forever: once started it returns an error value, and no envelope
\* or result channel of it exists
C25_DispatchError ==
  \A c \in Callers :
    /\ cpc[c] # "panic"
    /\ ~BlockedForever(c)
    /\ cpc[c] # "idle" =>
         (cpc[c] = "done" /\ cret[c] # Nil /\ requests[NewRequest(c)] = NoRequest)

\* the rows the request of caller c leaves in database d when it succeeds
EffectIn(c, d) ==
  LET r == requests[NewRequest(c)] IN
  CASE r.Type = "join_subreddit" ->
         IsMember(d, r.Payload.SubredditID, r.Context.user_id)
    [] r.Type = "create_subreddit" ->
         \E row \in d.subreddits :
           row.name = r.Payload.Name /\ IsMember(d, row.id, r.Context.user_id)
    [] r.Type = "vote" ->
         /\ [user_id |-> r.Context.user_id, target_id |-> r.Payload.TargetID,
             target_type |-> r.Payload.TargetType, vote_value |-> r.Payload.Value] \in d.votes
         /\ KarmaApplied(d)
    [] OTHER -> FALSE

\* C26: a ProcessRequest call that has returned has had its request executed
\* to the end by a worker, which is no longer inside it; if it returned nil
\* the rows of the mutation are in the committed database, and they are in
\* the result of every query whose read method has yet to return
C26_ReturnAfterExecution ==
  \A c \in Callers :
    cpc[c] = "done" =>
      /\ Executed(NewRequest(c))
      /\ outcome[NewRequest(c)] # "none"
      /\ \A w \in Workers : wmsg[w] # NewRequest(c)
      /\ cret[c] = Nil =>
           /\ EffectIn(c, db)
           /\ rpc = "unlock" => EffectIn(c, rseen)

\* the join, the create and a vote have returned nil and a read method's
\* query has returned the rows of all three
C26_Witness ==
  /\ \A c \in {1, 2, 3} : cpc[c] = "done" /\ cret[c] = Nil
  /\ rpc = "unlock"
  /\ IsMember(rseen, 1, 1) /\ IsMember(rseen, 1, 2) /\ rseen.votes # {}

\* C27: p.mu is held only by a call that is between reading the counter and
\* incrementing it; such a call has sent no envelope, so no worker and no
\* store method runs for it; and whenever no call is at that point the mutex
\* is free, whatever the other calls wait for: an idle caller can take a slot
C27_GuardScope ==
  /\ pmu # NoHolder =>
       /\ pmu \in Callers
       /\ cpc[pmu] = "advance"
       /\ requests[NewRequest(pmu)] = NoRequest
       /\ \A w \in Workers : wmsg[w] # NewRequest(pmu)
  /\ \A c \in Callers : cpc[c] \in {"idle", "send", "wait", "done"} => pmu # c
  /\ \A w \in Workers : wmsg[w] # 0 => pmu # requests[wmsg[w]].Context.caller
  /\ (\A c \in Callers : cpc[c] # "advance") =>
       /\ PoolMutexFree(pmu)
       /\ \A c \in Callers : cpc[c] = "idle" => ENABLED PLock(c)

\* one caller waits for a worker that is inside a store method holding dm.mu,
\* a second for a worker that waits for dm.mu, and a third holds p.mu
C27_Witness ==
  \E c1, c2, c3 \in Callers :
    /\ cpc[c1] = "wait" /\ cpc[c2] = "wait" /\ cpc[c3] = "advance" /\ pmu = c3
    /\ \E w1, w2 \in Workers :
         /\ wmsg[w1] = NewRequest(c1) /\ dmu = w1
         /\ wmsg[w2] = NewRequest(c2) /\ spc[w2] = "lock"

\* the values received so far from result channel ch
Received(ch) == Cardinality({c \in Callers : cpc[c] = "done" /\ cchan[c] = ch})

\* C28: every call that has sent has an envelope of its own with a result
\* channel of its own, the one it receives from; only a worker executing that
\* envelope sends on the channel, at most once, and only the call that made
\* it receives from it: what was sent is either still in the channel or was
\* received by that call; a call that has returned got exactly one message
C28_FreshEnvelope ==
  /\ \A c \in Submitted :
       /\ requests[NewRequest(c)] # NoRequest
       /\ requests[NewRequest(c)].Context.caller = c
       /\ requests[NewRequest(c)].Result = cchan[c]
  /\ \A c1, c2 \in Submitted :
       c1 # c2 => /\ cchan[c1] # cchan[c2]
                  /\ requests[NewRequest(c1)].Result # requests[NewRequest(c2)].Result
  /\ \A c \in Callers :
       LET ch == NewChan(c) IN
       /\ nsent[ch] <= 1
       /\ nsent[ch] = Len(chans[ch]) + Received(ch)
       /\ nsent[ch] = Cardinality({r \in Callers :
                         requests[r] # NoRequest /\ requests[r].Result = ch
                           /\ outcome[r] # "none"})
       /\ cpc[c] = "done" => (nsent[ch] = 1 /\ chans[ch] = <<>>)
  /\ \A w \in Workers :
       wmsg[w] # 0 => /\ ResultChan(wmsg[w]) = cchan[requests[wmsg[w]].Context.caller]
                      /\ nsent[ResultChan(wmsg[w])] = 0

\* one call has received its message, the message of a second is in its
\* channel, and a third call's envelope is being executed
C28_Witness ==
  \E c1, c2, c3 \in Callers :
    /\ cpc[c1] = "done" /\ nsent[cchan[c1]] = 1
    /\ cpc[c2] = "wait" /\ Len(chans[cchan[c2]]) = 1
    /\ cpc[c3] = "wait" /\ \E w \in Workers : wmsg[w] = NewRequest(c3)

\* the store operation of each kind
OperationOf ==
  [k \in KnownKinds |->
     CASE k = "create_post" -> "CreatePost"
       [] k = "create_comment" -> "CreateComment"
       [] k = "send_message" -> "SendDirectMessage"
       [] k = "create_subreddit" -> "CreateSubreddit"
       [] k = "join_subreddit" -> "JoinSubreddit"
       [] k = "leave_subreddit" -> "LeaveSubreddit"
       [] k = "vote" -> "Vote"]

\* the tables the store operation of each kind writes
TablesOf ==
  [k \in KnownKinds |->
     CASE k = "create_post" -> {"posts"}
       [] k = "create_comment" -> {"comments"}
       [] k = "send_message" -> {"direct_messages"}
       [] k = "create_subreddit" -> {"subreddits", "subreddit_members"}
       [] k = "join_subreddit" -> {"subreddit_members"}
       [] k = "leave_subreddit" -> {"subreddit_members"}
       [] k = "vote" -> {"votes", "users"}]

AllTables == DOMAIN EmptyDb \ {"seq"}

ChangedTables(d1, d2) == {t \in AllTables : d1[t] # d2[t]}

\* what the operation of request r, run on database d1 by itself, has made of
\* it in d2
DoneBy(r, d1, d2) ==
  LET u == r.Context.user_id
      pl == r.Payload
  IN CASE r.Type = "create_post" ->
            \E row \in d2.posts \ d1.posts :
              /\ row.author_id = u /\ row.subreddit_id = pl.SubredditID
              /\ d2.posts = d1.posts \cup {row}
       [] r.Type = "create_comment" ->
            \E row \in d2.comments \ d1.comments :
              /\ row.author_id = u /\ row.post_id = pl.PostID
              /\ d2.comments = d1.comments \cup {row}
       [] r.Type = "send_message" ->
            \E row \in d2.direct_messages \ d1.direct_messages :
              /\ row.from_user_id = u /\ row.to_user_id = pl.ToUserID
              /\ d2.direct_messages = d1.direct_messages \cup {row}
       [] r.Type = "create_subreddit" ->
            \E row \in d2.subreddits \ d1.subreddits :
              /\ row.name = pl.Name
              /\ d2.subreddits = d1.subreddits \cup {row}
              /\ IsMember(d2, row.id, u)
       [] r.Type = "join_subreddit" ->
            /\ IsMember(d2, pl.SubredditID, u)
            /\ \A m \in d1.subreddit_members : m \in d2.subreddit_members
       [] r.Type = "leave_subreddit" ->
            /\ ~IsMember(d2, pl.SubredditID, u)
            /\ d2.subreddit_members \subseteq d1.subreddit_members
       [] r.Type = "vote" ->
            d2.votes = d1.votes \cup {[user_id |-> u, target_id |-> pl.TargetID,
                                       target_type |-> pl.TargetType,
                                       vote_value |-> pl.Value]}
       [] OTHER -> FALSE

\* C30: a worker executing an envelope of one of the seven kinds is inside the
\* store operation of that kind and no other, and at the end of the
\* operation, before dm.mu is released, it has written the tables of that
\* kind only, and on success done what the kind says; a worker executing an envelope of any other kind is in no store
\* operation, holds neither dm.mu nor a transaction and has the error
\* "unhandled request type", which is what the caller gets; and the database
\* changes only in a step of a worker that executes one of the seven kinds
C30_ClosedKinds ==
  /\ [](\A w \in Workers :
          wmsg[w] # 0 =>
            LET r == requests[wmsg[w]] IN
            IF r.Type \in KnownKinds
            THEN /\ spc[w] # "idle"
                 /\ sarg[w].op = OperationOf[r.Type]
                 /\ spc[w] = "unlock" =>
                      /\ ChangedTables(spre[w], db) \subseteq TablesOf[r.Type]
                      /\ serr[w] = Nil => DoneBy(r, spre[w], db)
            ELSE /\ spc[w] = "done"
                 /\ sarg[w] = NoArgs
                 /\ serr[w] = "unhandled request type"
                 /\ dmu # w /\ ~tx[w].open)
  /\ [](\A c \in Callers :
          (cpc[c] = "done" /\ requests[NewRequest(c)].Type \notin KnownKinds)
            => cret[c] = "unhandled request type")
  /\ [][db' # db =>
          \E w \in Workers :
            /\ dmu = w /\ wmsg[w] # 0
            /\ requests[wmsg[w]].Type \in KnownKinds]_vars

\* a join has just been executed by one worker while the other has taken an
\* envelope of unknown kind, and the call of a third kind has returned nil
C30_Witness ==
  /\ \E w \in Workers :
       /\ wmsg[w] # 0 /\ requests[wmsg[w]].Type = "join_subreddit"
       /\ spc[w] = "unlock" /\ serr[w] = Nil
       /\ IsMember(db, 2, 2) /\ ~IsMember(spre[w], 2, 2)
  /\ \E w \in Workers : wmsg[w] # 0 /\ requests[wmsg[w]].Type = "delete_post"
  /\ cpc[1] = "done" /\ cret[1] = Nil

\* the call of c1 took its round-robin slot before the call of c2 took its
TookSlotBefore(c1, c2) ==
  \E j, k \in 1 .. Len(slotLog) :
    j < k /\ slotLog[j].caller = c1 /\ slotLog[k].caller = c2

\* C31: nothing orders requests routed to different workers: when the request
\* of a call that took its slot later is the next in the mailbox of an idle
\* worker, that worker can receive it although the earlier request, routed to
\* another worker, has not been executed; and once it waits for dm.mu and
\* dm.mu is free, it can run its store method
C31_NoCrossOrder ==
  \A c1, c2 \in Callers :
    (/\ TookSlotBefore(c1, c2)
     /\ cactor[c1] # cactor[c2]
     /\ ~Executed(NewRequest(c1)))
    => LET w == cactor[c2] IN
       /\ (/\ wpc[w] = "idle"
           /\ mailbox[w] # <<>>
           /\ Head(mailbox[w]) = NewRequest(c2)) => ENABLED WReceive(w)
       /\ (/\ wmsg[w] = NewRequest(c2)
           /\ spc[w] = "lock"
           /\ dmu = NoHolder) => ENABLED WStore(w)

\* the request of the later call has written to the store and been answered
\* while the earlier request, sent to another worker, waits in its mailbox
C31_Witness ==
  \E c1, c2 \in Callers :
    /\ TookSlotBefore(c1, c2)
    /\ cactor[c1] # cactor[c2]
    /\ cpc[c1] = "wait" /\ ~Executed(NewRequest(c1))
    /\ mailbox[cactor[c1]] = <<NewRequest(c1)>>
    /\ outcome[NewRequest(c2)] = Nil
    /\ db # SeedDb

\* all of ResetDatabase at once: every table of the list emptied, every
\* counter deleted
ResetAtOnce(d) ==
  [d EXCEPT !.direct_messages = {}, !.votes = {}, !.comments = {}, !.posts = {},
            !.subreddit_members = {}, !.subreddits = {}, !.users = {}, !.seq = EmptySeq]

\* write method a run alone on database d, with no other goroutine and no
\* failure of the store: the database it leaves and the error it returns
RunAlone(d, a) ==
  CASE a.op = "Vote" ->
         IF VoteRowAccepted(d, VoteRow(a))
         THEN [d |-> UpdateKarma([d EXCEPT !.votes = @ \cup {VoteRow(a)}],
                                 a.TargetType, a.TargetID, a.Value),
               err |-> Nil]
         ELSE [d |-> d, err |-> "failed to record vote"]
    [] a.op = "CreateSubreddit" ->
         IF SubredditNameTaken(d, a.name)
         THEN [d |-> d, err |-> "failed to create subreddit"]
         ELSE LET d1 == InsertSubreddit(d, a.name)
                  id == LastInsertId(d1, "subreddits")
              IN IF IsMember(d1, id, a.userID)
                 THEN [d |-> d, err |-> "failed to add creator to subreddit"]
                 ELSE [d |-> InsertMember(d1, id, a.userID), err |-> Nil]
    [] a.op = "ResetDatabase" -> [d |-> ResetAtOnce(d), err |-> Nil]
    [] OTHER -> ExecResult(d, a, FALSE)

Writers == {p \in StoreProcs : Writing(p)}

\* C32: at most one write method, on a worker or called directly, is between
\* its Lock and its Unlock, and it holds dm.mu; a read method between RLock
\* and RUnlock excludes every writer; the database changes only in a step of
\* the writer; and when a write method is about to unlock, the database is
\* what the method run alone would have made of the database it found when it
\* locked, so the mutations compose in the order of their critical sections
C32_StoreExclusion ==
  /\ [](/\ Cardinality(Writers) <= 1
        /\ \A p \in StoreProcs : Writing(p) <=> dmu = p
        /\ \A p \in StoreProcs : tx[p].open => Writing(p)
        /\ rpc \in {"query", "unlock"} <=> dmu = Reader
        /\ \A p \in StoreProcs :
             spc[p] = "unlock" =>
               /\ db = RunAlone(spre[p], sarg[p]).d
               /\ serr[p] = RunAlone(spre[p], sarg[p]).err)
  /\ [][(db' # db) => (Writers # {} /\ dmu \in Writers)]_vars

\* a worker is inside a transaction that has written while the other worker,
\* a direct call of a write method and hence every reader wait for dm.mu
C32_Witness ==
  \E w, v \in Workers :
    /\ w # v
    /\ tx[w].open /\ tx[w].d # db
    /\ spc[v] = "lock" /\ spc[Direct] = "lock" /\ sarg[Direct].op # "ResetDatabase"
    /\ rpc = "idle" /\ ~ENABLED RLock

\* C33: a worker whose process function has returned can send on msg.Result
\* at once, whether or not the caller is receiving; and, with no assumption
\* that any caller ever receives, a worker that executes a request gets back
\* to taking its next message
C33_SendNeverBlocks ==
  /\ [](\A w \in Workers :
          (wpc[w] = "process" /\ spc[w] = "done") =>
            /\ chans[ResultChan(wmsg[w])] = <<>>
            /\ ENABLED WComplete(w))
  /\ \A w \in Workers : (wpc[w] = "process") ~> (wpc[w] = "idle")

\* a worker executes its second request while the result of its first is
\* still in the channel, the caller not having received it
C33_Witness ==
  \E c \in Callers :
    LET w == cactor[c] IN
    /\ cpc[c] = "wait"
    /\ Len(chans[cchan[c]]) = 1
    /\ execLog[w] # <<>> /\ execLog[w][1] = NewRequest(c)
    /\ Len(execLog[w]) = 2 /\ wpc[w] = "process"

\* the handler of caller c has returned
Handled(c) == cpc[c] \in {"done", "rejected"}

\* C34: a request whose handler has returned has had exactly one response
\* written, and no request ever more than one
C34_OneResponse ==
  \A c \in Callers :
    /\ Len(resp[c]) <= 1
    /\ Handled(c) => Len(resp[c]) = 1

\* the tables whose rows each table's FOREIGN KEY clauses refer to (other
\* than itself)
ReferencedBy ==
  [t \in AllTables |->
     CASE t = "subreddit_members" -> {"subreddits", "users"}
       [] t = "posts" -> {"users", "subreddits"}
       [] t = "comments" -> {"users", "posts"}
       [] t = "votes" -> {"users"}
       [] t = "direct_messages" -> {"users"}
       [] t = "user_subscriptions" -> {"users"}
       [] OTHER -> {}]

\* p runs ResetDatabase and is inside its transaction
Resetting(p) == sarg[p].op = "ResetDatabase" /\ tx[p].open

\* the tables the reset of p has emptied so far
Emptied(p) ==
  IF spc[p] = "delete"
  THEN {ResetTables[i] : i \in 1 .. (sidx[p] - 1)}
  ELSE {ResetTables[i] : i \in 1 .. Len(ResetTables)}

\* C35: ResetDatabase empties direct_messages, votes, comments, posts,
\* subreddit_members, subreddits, users in this order; whenever it has emptied
\* a table, no table that still has rows refers to it; and while it deletes
\* rows the counters are as it found them
C35_ChildrenFirst ==
  /\ ResetTables = <<"direct_messages", "votes", "comments", "posts", "subreddit_members",
                     "subreddits", "users">>
  /\ \A p \in StoreProcs :
       Resetting(p) =>
         /\ \A t \in Emptied(p) : tx[p].d[t] = {}
         /\ \A u \in AllTables :
              tx[p].d[u] # {} => ReferencedBy[u] \cap Emptied(p) = {}
         /\ spc[p] = "delete" => tx[p].d.seq = spre[p].seq
         /\ db = spre[p]

\* the vote rows of user u on target t of kind k
CastsOf(d, u, t, k) ==
  {v \in d.votes : v.user_id = u /\ v.target_id = t /\ v.target_type = k}

\* some user of d has another karma in e
KarmaChanged(d, e) ==
  \E u \in d.users : \E u2 \in e.users : u2.id = u.id /\ u2.karma # u.karma

\* C36: every vote row has a value of -1 or 1 and the kind post or comment,
\* and the values of one user's rows on one target add up to -1, 0 or 1;
\* every step that changes a karma is the commit of a Vote whose row was not
\* in the ledger: it adds that one row and changes the karma of the target's
\* author by the row's value and no other karma, so that no (user, target,
\* kind, value) counts twice
C36_LedgerShape ==
  /\ [](/\ \A v \in db.votes :
             v.vote_value \in {-1, 1} /\ v.target_type \in {"post", "comment"}
        /\ \A v \in db.votes :
             LET mine == CastsOf(db, v.user_id, v.target_id, v.target_type) IN
             /\ Cardinality(mine) <= 2
             /\ SumOver([x \in mine |-> x.vote_value], mine) \in {-1, 0, 1})
  /\ [][KarmaChanged(db, db') =>
          \E p \in StoreProcs :
            /\ sarg[p].op = "Vote" /\ dmu = p
            /\ VoteRow(sarg[p]) \notin db.votes
            /\ db'.votes = db.votes \cup {VoteRow(sarg[p])}
            /\ \A u \in db.users :
                 KarmaOf(db', u.id) =
                   u.karma + (IF u.id \in AuthorOf(db, sarg[p].TargetType, sarg[p].TargetID)
                              THEN sarg[p].Value ELSE 0)]_vars

\* user 2 has voted post 1 up and down, the author's karma is 0 again, and a
\* third vote of user 2 on post 1 has been rejected
C36_Witness ==
  /\ Cardinality(CastsOf(db, 2, 1, "post")) = 2
  /\ KarmaOf(db, 1) = 0
  /\ spc[Direct] = "unlock" /\ sarg[Direct].op = "Vote" /\ sarg[Direct].userID = 2
  /\ sarg[Direct].TargetType = "post" /\ serr[Direct] # Nil

\* C37: the counter is an index of p.actors in every state, and so is the
\* worker every call has picked; p.actors holds the PoolSize workers spawned
\* at construction, each once, and mailboxes and actors exist for exactly these
C37_CounterRange ==
  /\ PoolSize >= 1
  /\ roundRobin \in 0 .. (PoolSize - 1)
  /\ IndexInRange(Actors, roundRobin)
  /\ Actors[roundRobin + 1] \in Workers
  /\ \A c \in Callers : cpc[c] # "idle" => cactor[c] \in Workers
  /\ {Actors[i] : i \in DOMAIN Actors} = Workers
  /\ \A i, j \in DOMAIN Actors : Actors[i] = Actors[j] => i = j
  /\ DOMAIN mailbox = Workers /\ DOMAIN wpc = Workers

\* the counter has gone round: it is 0 again and a call is picking worker 0
\* for the second time
C37_Witness ==
  /\ roundRobin = 0
  /\ Len(slotLog) = PoolSize + 1
  /\ \E c \in Callers : cpc[c] = "advance" /\ cactor[c] = Actors[1]

\* C38: while ResetDatabase, called by its handler, is between Lock and
\* Unlock no worker is inside a write method, and while a worker is inside
\* one the reset is not; the reset finds only whole mutations (every vote row
\* with its karma, every community with its founder) and on success leaves
\* what it found with the seven tables emptied and the counters deleted; a
\* worker's transaction finds the database unchanged by others until it
\* ends, and leaves what its method run alone would have left
C38_ResetSerialised ==
  /\ Writing(Direct) => \A w \in Workers : ~Writing(w) /\ ~tx[w].open
  /\ \A w \in Workers : Writing(w) => (~Writing(Direct) /\ ~tx[Direct].open)
  /\ Resetting(Direct) =>
       /\ db = spre[Direct]
       /\ KarmaApplied(db) /\ FounderPresent(db)
  /\ (spc[Direct] = "unlock" /\ sarg[Direct].op = "ResetDatabase") =>
       IF serr[Direct] = Nil
       THEN /\ db = ResetAtOnce(spre[Direct])
            /\ \A t \in {"votes", "users", "subreddits", "subreddit_members"} : db[t] = {}
       ELSE db = spre[Direct]
  /\ \A w \in Workers :
       /\ tx[w].open => db = spre[w]
       /\ (spc[w] = "unlock" /\ serr[w] = Nil) => db = RunAlone(spre[w], sarg[w]).d

\* the reset is in the middle of its deletes, having found the community a
\* worker created, while a vote on a worker waits for dm.mu
C38_Witness ==
  /\ Resetting(Direct) /\ spc[Direct] = "delete" /\ sidx[Direct] > 2
  /\ db.subreddits # {}
  /\ \E w \in Workers : spc[w] = "lock" /\ sarg[w].op = "Vote"

====
